---- MODULE Spec2Model ----
(***************************************************************************)
(* A model of the chess engine: Chess.Bitboard, Chess.Zobrist, Chess.Move  *)
(* and Chess.Position (move generation, makeMove / unmakeMove, status).    *)
(*                                                                         *)
(* Representation.                                                         *)
(*  - A Chess.Bitboard (two 32 bit halves low/high) is the set of the      *)
(*    indices 0..63 of its one-bits; and/or/xor/not are the set            *)
(*    operations and a shift translates the set and drops what leaves      *)
(*    0..63.                                                               *)
(*  - A Chess.Zobrist value is the XOR of entries of the random table      *)
(*    RANDOM_VALUES.  The table is random, so the value is kept            *)
(*    symbolically as the set of table positions that were XOR-ed in an    *)
(*    odd number of times; update(position) is the symmetric difference    *)
(*    with {position}.  Two symbolic values that are equal are equal for   *)
(*    every table.                                                         *)
(*  - A Chess.Move is the packed integer `value` of the source.            *)
(***************************************************************************)
EXTENDS Integers, Sequences, FiniteSets, TLC

\* ------------------------------------------------------------------ chess.js
RANKS_N == 8
FILES_N == 8
LAST_RANK == RANKS_N - 1
LAST_FILE == FILES_N - 1

PAWN == 0
KNIGHT == 1
BISHOP == 2
ROOK == 3
QUEEN == 4
KING == 5

WHITE == 0
BLACK == 1

\* JavaScript null (an empty entry of Position.pieces, a missing move)
Null == -1

Board == 0 .. 63

getRank(index) == index \div 8

getFile(index) == index % 8

getOtherPieceColor(color) == 1 - color

\* --------------------------------------------------------------- bitboard.js
\* this << v for v in 0..63: bits shifted beyond bit 63 are lost
shl(bb, v) == { i + v : i \in bb } \cap Board

\* this >>> v for v in 0..63: bits shifted below bit 0 are lost
shr(bb, v) == { i - v : i \in bb } \cap Board

shiftLeft(bb, v) ==
  IF v > 63 \/ v < -63 THEN {}
  ELSE IF v > 0 THEN shl(bb, v)
  ELSE IF v < 0 THEN shr(bb, -v)
  ELSE bb

and_not(bb, other) == bb \ other

xor(bb, other) == (bb \ other) \cup (other \ bb)

not(bb) == Board \ bb

isEmpty(bb) == bb = {}

isSet(bb, index) == index \in bb

setBit(bb, index) == bb \cup {index}

clearBit(bb, index) == bb \ {index}

popcnt(bb) == Cardinality(bb)

makeIndex(index) == setBit({}, index)

\* position of the lowest one-bit; on the empty board popcnt32((0 & -0) - 1)
\* is 32 in both halves, so the JavaScript yields 32 + 32
getLowestBitPosition(bb) ==
  IF bb = {} THEN 64 ELSE CHOOSE i \in bb : \A j \in bb : i <= j

popLowestBit(bb) == bb \ {getLowestBitPosition(bb)}

\* the indices that a loop of extractLowestBitPosition() yields, in order
RECURSIVE extractAll(_)
extractAll(bb) ==
  IF isEmpty(bb) THEN <<>>
  ELSE <<getLowestBitPosition(bb)>> \o extractAll(popLowestBit(bb))

\* make(0x01010101, 0x01010101).shl(file)
makeFile(file) == shl({ 8 * r : r \in 0 .. 7 }, file)

\* make(0xFF, 0).shl(rank * 8)
makeRank(rank) == shl(0 .. 7, rank * 8)

FILES == [f \in 0 .. 7 |-> makeFile(f)]

RANKS == [r \in 0 .. 7 |-> makeRank(r)]

\* makeKnightMovement without the file masks of the two-file steps
makeKnightMovement_Wrapping(index) ==
  LET b == setBit({}, index)
      l1 == and_not(shr(b, 1), FILES[7])
      l2 == shr(b, 2)
      r1 == and_not(shl(b, 1), FILES[0])
      r2 == shl(b, 2)
      v1 == l2 \cup r2
      v2 == l1 \cup r1
  IN shl(v1, 8) \cup shr(v1, 8) \cup shl(v2, 16) \cup shr(v2, 16)

makeKnightMovement(index) ==
  LET b == setBit({}, index)
      l1 == and_not(shr(b, 1), FILES[7])
      l2 == and_not(and_not(shr(b, 2), FILES[7]), FILES[6])
      r1 == and_not(shl(b, 1), FILES[0])
      r2 == and_not(and_not(shl(b, 2), FILES[0]), FILES[1])
      v1 == l2 \cup r2
      v2 == l1 \cup r1
  IN shl(v1, 8) \cup shr(v1, 8) \cup shl(v2, 16) \cup shr(v2, 16)

makeKingMovement(index) ==
  LET b == setBit({}, index)
      c == and_not(shr(b, 1), FILES[7]) \cup and_not(shl(b, 1), FILES[0])
      u == shr(b \cup c, 8)
      d == shl(b \cup c, 8)
  IN c \cup u \cup d

KNIGHT_MOVEMENTS == [i \in Board |-> makeKnightMovement(i)]

KING_MOVEMENTS == [i \in Board |-> makeKingMovement(i)]

\* make(0x55AA55AA, 0x55AA55AA): bytes AA, 55 alternate from rank 1 upwards
LIGHT_SQUARES == { i \in Board : (getRank(i) + getFile(i)) % 2 = 1 }

\* make(0xAA55AA55, 0xAA55AA55)
DARK_SQUARES == { i \in Board : (getRank(i) + getFile(i)) % 2 = 0 }

\* ------------------------------------------------------------------- move.js
POSITIONAL == 0
DOUBLE_PAWN_PUSH == 1
KING_CASTLE == 2
QUEEN_CASTLE == 3
CAPTURE == 4
EN_PASSANT_CAPTURE == 5
KNIGHT_PROMOTION == 8
BISHOP_PROMOTION == 9
ROOK_PROMOTION == 10
QUEEN_PROMOTION == 11
KNIGHT_PROMOTION_CAPTURE == 12
BISHOP_PROMOTION_CAPTURE == 13
ROOK_PROMOTION_CAPTURE == 14
QUEEN_PROMOTION_CAPTURE == 15

\* the packed value; capturedPiece | 0 turns null into 0 (pawn)
Move(from, to, kind, piece, capturedPiece) ==
  (to % 64) + (from % 64) * 64 + (kind % 16) * 4096 + (piece % 8) * 65536
    + ((IF capturedPiece = Null THEN 0 ELSE capturedPiece) % 8) * 524288

getTo(move) == move % 64

getFrom(move) == (move \div 64) % 64

\* getKind reading three bits of the kind field instead of four
getKind_3bits(move) == (move \div 4096) % 8

getKind(move) == (move \div 4096) % 16

getPiece(move) == (move \div 65536) % 8

isCapture(move) == (getKind(move) \div 4) % 2 = 1

getCapturedPiece(move) == (move \div 524288) % 8

isPromotion(move) == (getKind(move) \div 8) % 2 = 1

isCastle(move) == getKind(move) = KING_CASTLE \/ getKind(move) = QUEEN_CASTLE

getPromotedPiece(move) ==
  IF isPromotion(move) THEN KNIGHT + (getKind(move) % 4) ELSE PAWN

\* getCaptureSquare that answers the destination for every kind
getCaptureSquare_To(move) == getTo(move)

getCaptureSquare(move) ==
  IF getKind(move) # EN_PASSANT_CAPTURE THEN getTo(move)
  ELSE getTo(move) + (IF getFrom(move) < getTo(move) THEN -FILES_N ELSE FILES_N)

\* ---------------------------------------------------------------- zobrist.js
Count_TURN == 1 * 2
Count_PIECE_COLOR_SQUARE == 6 * 2 * 64 * 2
Count_CASTLING_RIGHTS == 16 * 2
Count_EN_PASSANT_FILE == 8 * 2

Position_TURN == 0
Position_PIECE_COLOR_SQUARE == Count_TURN
Position_CASTLING_RIGHTS == Count_TURN + Count_PIECE_COLOR_SQUARE
Position_EN_PASSANT_FILE ==
  Count_TURN + Count_PIECE_COLOR_SQUARE + Count_CASTLING_RIGHTS

\* new Chess.Zobrist(0, 0)
ZobristZero == {}

\* low ^= RANDOM_VALUES[position], high ^= RANDOM_VALUES[position + 1]
update(hash, position) == xor(hash, {position})

updateTurn(hash) == update(hash, Position_TURN)

updatePieceColorSquare(hash, piece, color, index) ==
  update(hash, Position_PIECE_COLOR_SQUARE + piece + color * 6 + index * 6 * 2)

\* the loop updates the hash once for every square of the bitboard; the
\* squares are distinct, so every one of their table entries is XOR-ed once
updatePieceColorBitboard(hash, piece, color, bitboard) ==
  xor(hash, { Position_PIECE_COLOR_SQUARE + piece + color * 6 + index * 6 * 2 :
                index \in bitboard })

updateCastlingRights(hash, castlingRights) ==
  update(hash, Position_CASTLING_RIGHTS + castlingRights)

updateEnPassantFile(hash, enPassantFile) ==
  update(hash, Position_EN_PASSANT_FILE + enPassantFile)

updateEnPassantSquare(hash, enPassantSquare) ==
  IF enPassantSquare >= 0 THEN updateEnPassantFile(hash, getFile(enPassantSquare))
  ELSE hash

\* --------------------------------------------------------------- position.js
ANY_WHITE == KING + 1
ANY_BLACK == ANY_WHITE + 1

ROOK_INDICES == [i \in 0 .. 3 |-> CASE i = 0 -> 7 [] i = 1 -> 63 [] i = 2 -> 0 [] i = 3 -> 56]

\* indexed by 1 + fileDirection
SLIDING_MASKS == [i \in 0 .. 2 |->
  CASE i = 0 -> not(makeFile(LAST_FILE)) [] i = 1 -> Board [] i = 2 -> not(makeFile(0))]

NORMAL == 0
CHECKMATE == 1
STALEMATE_DRAW == 2
FIFTY_MOVE_RULE_DRAW == 3
THREEFOLD_REPETITION_RULE_DRAW == 4
INSUFFICIENT_MATERIAL_DRAW == 5

getColorBitboard(p, color) == p.bitboards[ANY_WHITE + color]

getPieceBitboard(p, piece) == p.bitboards[piece]

getPieceColorBitboard(p, piece, color) ==
  p.bitboards[piece] \cap getColorBitboard(p, color)

getKingPosition(p, color) ==
  getLowestBitPosition(getPieceColorBitboard(p, KING, color))

getOccupiedBitboard(p) == p.bitboards[ANY_WHITE] \cup p.bitboards[ANY_BLACK]

getEmptyBitboard(p) == not(getOccupiedBitboard(p))

getTurnColor(p) == p.turn

\* the first piece whose bitboard has the bit, else null
findPieceAtOrNull(bitboards, index) ==
  IF \E piece \in PAWN .. KING : isSet(bitboards[piece], index)
  THEN CHOOSE piece \in PAWN .. KING :
         /\ isSet(bitboards[piece], index)
         /\ \A q \in PAWN .. KING : isSet(bitboards[q], index) => piece <= q
  ELSE Null

getPieceAtOrNull(p, index) == p.pieces[index]

fillPiecesFromBitboards(bitboards) ==
  [index \in Board |-> findPieceAtOrNull(bitboards, index)]

\* the two nested loops of updateHashKey: one updatePieceColorBitboard for each
\* color and piece; the twelve calls XOR disjoint parts of the table
hashPieces(p, hash) ==
  xor(hash,
      UNION { updatePieceColorBitboard(ZobristZero, k % 6, k \div 6,
                                       getPieceColorBitboard(p, k % 6, k \div 6)) :
                k \in 0 .. 11 })

\* the hash key computed from scratch
updateHashKey(p) ==
  LET h0 == IF getTurnColor(p) # 0 THEN updateTurn(ZobristZero) ELSE ZobristZero
      h1 == hashPieces(p, h0)
      h2 == updateCastlingRights(h1, p.castlingRights)
  IN updateEnPassantSquare(h2, p.enPassantSquare)

makePawnAttackMask(color, pawns) ==
  LET white == (color = WHITE)
      attacks1 == shiftLeft(and_not(pawns, FILES[0]), IF white THEN 7 ELSE -9)
      attacks2 == shiftLeft(and_not(pawns, FILES[LAST_FILE]), IF white THEN 9 ELSE -7)
  IN attacks1 \cup attacks2

RECURSIVE slideLoop(_, _, _, _, _)
\* one test of the loop condition, fromBB as left by the previous increment
slideLoop(fromBB, bb, occupied, direction, mask) ==
  LET f == fromBB \cap mask
  IN IF isEmpty(f) THEN bb
     ELSE slideLoop(shiftLeft(and_not(f, occupied), direction), bb \cup f,
                    occupied, direction, mask)

\* makeSlidingAttackMask whose loop condition leaves out and(mask)
makeSlidingAttackMask_NoMask(fromBB, occupied, rankDirection, fileDirection) ==
  LET direction == rankDirection * FILES_N + fileDirection
  IN slideLoop(shiftLeft(fromBB, direction), {}, occupied, direction, 0 .. 63)

makeSlidingAttackMask(fromBB, occupied, rankDirection, fileDirection) ==
  LET direction == rankDirection * FILES_N + fileDirection
      mask == SLIDING_MASKS[1 + fileDirection]
  IN slideLoop(shiftLeft(fromBB, direction), {}, occupied, direction, mask)

makeBishopAttackMask(fromBB, occupied) ==
  makeSlidingAttackMask(fromBB, occupied, 1, 1)
    \cup makeSlidingAttackMask(fromBB, occupied, 1, -1)
    \cup makeSlidingAttackMask(fromBB, occupied, -1, 1)
    \cup makeSlidingAttackMask(fromBB, occupied, -1, -1)

makeRookAttackMask(fromBB, occupied) ==
  makeSlidingAttackMask(fromBB, occupied, 0, 1)
    \cup makeSlidingAttackMask(fromBB, occupied, 0, -1)
    \cup makeSlidingAttackMask(fromBB, occupied, 1, 0)
    \cup makeSlidingAttackMask(fromBB, occupied, -1, 0)

isAttacked(p, color, index) ==
  LET pawns == getPieceColorBitboard(p, PAWN, color)
      knights == getPieceColorBitboard(p, KNIGHT, color)
      king == getPieceColorBitboard(p, KING, color)
      occupied == getOccupiedBitboard(p)
      queens == getPieceColorBitboard(p, QUEEN, color)
      bq == getPieceColorBitboard(p, BISHOP, color) \cup queens
      rq == getPieceColorBitboard(p, ROOK, color) \cup queens
  IN IF isSet(makePawnAttackMask(color, pawns), index) THEN TRUE
     ELSE IF ~isEmpty(KNIGHT_MOVEMENTS[index] \cap knights) THEN TRUE
     ELSE IF ~isEmpty(KING_MOVEMENTS[index] \cap king) THEN TRUE
     ELSE IF isSet(makeBishopAttackMask(bq, occupied), index) THEN TRUE
     ELSE IF isSet(makeRookAttackMask(rq, occupied), index) THEN TRUE
     ELSE FALSE

isKingInCheck(p) ==
  isAttacked(p, getOtherPieceColor(getTurnColor(p)), getKingPosition(p, getTurnColor(p)))

getCastlingIndex(color, kingSide) == color + (IF kingSide THEN 0 ELSE 2)

getCastlingRookSquare(color, kingSide) ==
  ROOK_INDICES[getCastlingIndex(color, kingSide)]

\* bit i of a 4 bit castling rights value
rightsBit(castlingRights, i) == (castlingRights \div (2 ^ i)) % 2

hasCastlingRight(p, color, kingSide) ==
  rightsBit(p.castlingRights, getCastlingIndex(color, kingSide)) # 0

\* clearCastlingRight without the two updateCastlingRights calls
clearCastlingRight_NoHash(p, color, kingSide) ==
  LET i == getCastlingIndex(color, kingSide)
  IN [p EXCEPT !.castlingRights = @ - rightsBit(@, i) * (2 ^ i)]

clearCastlingRight(p, color, kingSide) ==
  LET i == getCastlingIndex(color, kingSide)
      rights == p.castlingRights - rightsBit(p.castlingRights, i) * (2 ^ i)
  IN [p EXCEPT !.castlingRights = rights,
               !.hashKey = updateCastlingRights(
                             updateCastlingRights(@, p.castlingRights), rights)]

\* isCastlingLegal without the test of the king's destination square
isCastlingLegal_NoDestination(p, color, kingSide) ==
  LET otherColor == getOtherPieceColor(color)
      direction == IF kingSide THEN 1 ELSE -1
      kingPosition == IF color = WHITE THEN 4 ELSE 60
  IN /\ ~isAttacked(p, otherColor, kingPosition)
     /\ ~isAttacked(p, otherColor, kingPosition + direction)

isCastlingLegal(p, color, kingSide) ==
  LET otherColor == getOtherPieceColor(color)
      direction == IF kingSide THEN 1 ELSE -1
      kingPosition == IF color = WHITE THEN 4 ELSE 60
  IN /\ ~isAttacked(p, otherColor, kingPosition)
     /\ ~isAttacked(p, otherColor, kingPosition + direction)
     /\ ~isAttacked(p, otherColor, kingPosition + 2 * direction)

canCastle(p, color, kingSide, onlyLegal) ==
  IF ~hasCastlingRight(p, color, kingSide) THEN FALSE
  ELSE LET direction == IF kingSide THEN 1 ELSE -1
           kingPosition == IF color = WHITE THEN 4 ELSE 60
           occupied == getOccupiedBitboard(p)
       IN IF isSet(occupied, kingPosition + direction)
             \/ isSet(occupied, kingPosition + 2 * direction) THEN FALSE
          ELSE IF ~kingSide /\ isSet(occupied, kingPosition + 3 * direction) THEN FALSE
          ELSE IF onlyLegal /\ ~isCastlingLegal(p, color, kingSide) THEN FALSE
          ELSE TRUE

getEnPassantSquare(p) == p.enPassantSquare

canEnPassant(p) == getEnPassantSquare(p) >= 0

\* isFiftyMoveRuleDraw with > in place of >=
isFiftyMoveRuleDraw_After100(p) == p.halfmoveClock > 100

isFiftyMoveRuleDraw(p) == p.halfmoveClock >= 100

\* hashHistory.reduce(...) >= 3
isThreefoldRepetitionRuleDraw(p) ==
  Cardinality({ i \in 1 .. Len(p.hashHistory) : p.hashHistory[i] = p.hashKey }) >= 3

\* isInsufficientMaterialDraw without the knight test
isInsufficientMaterialDraw_KnightsIgnored(p) ==
  IF ~isEmpty(getPieceBitboard(p, PAWN)) THEN FALSE
  ELSE IF ~isEmpty(getPieceBitboard(p, ROOK)) THEN FALSE
  ELSE IF ~isEmpty(getPieceBitboard(p, QUEEN)) THEN FALSE
  ELSE LET whiteCount == popcnt(getColorBitboard(p, WHITE))
           blackCount == popcnt(getColorBitboard(p, BLACK))
           bishops == getPieceBitboard(p, BISHOP)
       IN IF whiteCount + blackCount < 4 THEN TRUE
          ELSE IF (bishops \cap LIGHT_SQUARES) = bishops
                  \/ (bishops \cap DARK_SQUARES) = bishops THEN TRUE
          ELSE FALSE

isInsufficientMaterialDraw(p) ==
  IF ~isEmpty(getPieceBitboard(p, PAWN)) THEN FALSE
  ELSE IF ~isEmpty(getPieceBitboard(p, ROOK)) THEN FALSE
  ELSE IF ~isEmpty(getPieceBitboard(p, QUEEN)) THEN FALSE
  ELSE LET whiteCount == popcnt(getColorBitboard(p, WHITE))
           blackCount == popcnt(getColorBitboard(p, BLACK))
           bishops == getPieceBitboard(p, BISHOP)
       IN IF whiteCount + blackCount < 4 THEN TRUE
          ELSE IF ~isEmpty(getPieceBitboard(p, KNIGHT)) THEN FALSE
          ELSE IF (bishops \cap LIGHT_SQUARES) = bishops
                  \/ (bishops \cap DARK_SQUARES) = bishops THEN TRUE
          ELSE FALSE

isDraw(p) ==
  isFiftyMoveRuleDraw(p) \/ isThreefoldRepetitionRuleDraw(p) \/ isInsufficientMaterialDraw(p)

RECURSIVE concatAll(_)
\* moves.push in the order of the enclosing loops
concatAll(ss) == IF ss = <<>> THEN <<>> ELSE Head(ss) \o concatAll(Tail(ss))

addPawnMoves(p, toMask, movement, kind) ==
  LET tos == extractAll(toMask)
  IN [i \in 1 .. Len(tos) |->
        Move(tos[i] - movement, tos[i], kind, PAWN, getPieceAtOrNull(p, tos[i]))]

\* addPawnPromotions that adds the queen promotions only
addPawnPromotions_QueenOnly(p, toMask, movement, capture) ==
  addPawnMoves(p, toMask, movement,
               IF capture THEN QUEEN_PROMOTION_CAPTURE ELSE QUEEN_PROMOTION)

addPawnPromotions(p, toMask, movement, capture) ==
  addPawnMoves(p, toMask, movement,
               IF capture THEN QUEEN_PROMOTION_CAPTURE ELSE QUEEN_PROMOTION)
   \o addPawnMoves(p, toMask, movement,
               IF capture THEN ROOK_PROMOTION_CAPTURE ELSE ROOK_PROMOTION)
   \o addPawnMoves(p, toMask, movement,
               IF capture THEN BISHOP_PROMOTION_CAPTURE ELSE BISHOP_PROMOTION)
   \o addPawnMoves(p, toMask, movement,
               IF capture THEN KNIGHT_PROMOTION_CAPTURE ELSE KNIGHT_PROMOTION)

addNormalMoves(p, from, toMask, piece) ==
  LET opponentBB == getColorBitboard(p, getOtherPieceColor(getTurnColor(p)))
      tos == extractAll(toMask)
  IN [i \in 1 .. Len(tos) |->
        Move(from, tos[i],
             IF isSet(opponentBB, tos[i]) THEN CAPTURE ELSE POSITIONAL,
             piece, getPieceAtOrNull(p, tos[i]))]

\* generatePawnMoves whose en passant captures leave out and_not(leftFile)
\* and and_not(rightFile)
generatePawnMoves_EnPassantWraps(p, onlyCaptures) ==
  LET turnColor == getTurnColor(p)
      opponentBB == getColorBitboard(p, getOtherPieceColor(turnColor))
      occupied == getOccupiedBitboard(p)
      fileDirection == 1 - 2 * turnColor
      rankDirection == FILES_N * fileDirection
      turnPawns == getPieceColorBitboard(p, PAWN, turnColor)
      lastRow == RANKS[IF turnColor # 0 THEN 0 ELSE LAST_RANK]
      doublePawnPushed ==
        and_not(and_not(shiftLeft(turnPawns \cap RANKS[IF turnColor # 0 THEN 6 ELSE 1],
                                  2 * rankDirection), occupied),
                shiftLeft(occupied, rankDirection))
      positionalPawnMoved == and_not(shiftLeft(turnPawns, rankDirection), occupied)
      quiet ==
        IF ~onlyCaptures
        THEN addPawnMoves(p, doublePawnPushed, 2 * rankDirection, DOUBLE_PAWN_PUSH)
              \o addPawnMoves(p, and_not(positionalPawnMoved, lastRow), rankDirection, POSITIONAL)
              \o addPawnPromotions(p, positionalPawnMoved \cap lastRow, rankDirection, FALSE)
        ELSE <<>>
      leftFile == FILES[IF turnColor # 0 THEN LAST_FILE ELSE 0]
      leftCaptureMovement == rankDirection - fileDirection
      pawnLeftCaptured ==
        shiftLeft(and_not(turnPawns, leftFile), leftCaptureMovement) \cap opponentBB
      rightFile == FILES[IF turnColor # 0 THEN 0 ELSE LAST_FILE]
      rightCaptureMovement == rankDirection + fileDirection
      pawnRightCaptured ==
        shiftLeft(and_not(turnPawns, rightFile), rightCaptureMovement) \cap opponentBB
      captures ==
        addPawnMoves(p, and_not(pawnLeftCaptured, lastRow), leftCaptureMovement, CAPTURE)
         \o addPawnPromotions(p, pawnLeftCaptured \cap lastRow, leftCaptureMovement, TRUE)
         \o addPawnMoves(p, and_not(pawnRightCaptured, lastRow), rightCaptureMovement, CAPTURE)
         \o addPawnPromotions(p, pawnRightCaptured \cap lastRow, rightCaptureMovement, TRUE)
      pawnLeftEnPassant ==
        shiftLeft(makeIndex(getEnPassantSquare(p) + fileDirection) \cap turnPawns,
                  leftCaptureMovement)
      pawnRightEnPassant ==
        shiftLeft(makeIndex(getEnPassantSquare(p) - fileDirection) \cap turnPawns,
                  rightCaptureMovement)
      enPassant ==
        IF canEnPassant(p)
        THEN addPawnMoves(p, pawnLeftEnPassant, leftCaptureMovement, EN_PASSANT_CAPTURE)
              \o addPawnMoves(p, pawnRightEnPassant, rightCaptureMovement, EN_PASSANT_CAPTURE)
        ELSE <<>>
  IN quiet \o captures \o enPassant

\* the pawn part of generateMoves
generatePawnMoves(p, onlyCaptures) ==
  LET turnColor == getTurnColor(p)
      opponentBB == getColorBitboard(p, getOtherPieceColor(turnColor))
      occupied == getOccupiedBitboard(p)
      fileDirection == 1 - 2 * turnColor
      rankDirection == FILES_N * fileDirection
      turnPawns == getPieceColorBitboard(p, PAWN, turnColor)
      lastRow == RANKS[IF turnColor # 0 THEN 0 ELSE LAST_RANK]
      doublePawnPushed ==
        and_not(and_not(shiftLeft(turnPawns \cap RANKS[IF turnColor # 0 THEN 6 ELSE 1],
                                  2 * rankDirection), occupied),
                shiftLeft(occupied, rankDirection))
      positionalPawnMoved == and_not(shiftLeft(turnPawns, rankDirection), occupied)
      quiet ==
        IF ~onlyCaptures
        THEN addPawnMoves(p, doublePawnPushed, 2 * rankDirection, DOUBLE_PAWN_PUSH)
              \o addPawnMoves(p, and_not(positionalPawnMoved, lastRow), rankDirection, POSITIONAL)
              \o addPawnPromotions(p, positionalPawnMoved \cap lastRow, rankDirection, FALSE)
        ELSE <<>>
      leftFile == FILES[IF turnColor # 0 THEN LAST_FILE ELSE 0]
      leftCaptureMovement == rankDirection - fileDirection
      pawnLeftCaptured ==
        shiftLeft(and_not(turnPawns, leftFile), leftCaptureMovement) \cap opponentBB
      rightFile == FILES[IF turnColor # 0 THEN 0 ELSE LAST_FILE]
      rightCaptureMovement == rankDirection + fileDirection
      pawnRightCaptured ==
        shiftLeft(and_not(turnPawns, rightFile), rightCaptureMovement) \cap opponentBB
      captures ==
        addPawnMoves(p, and_not(pawnLeftCaptured, lastRow), leftCaptureMovement, CAPTURE)
         \o addPawnPromotions(p, pawnLeftCaptured \cap lastRow, leftCaptureMovement, TRUE)
         \o addPawnMoves(p, and_not(pawnRightCaptured, lastRow), rightCaptureMovement, CAPTURE)
         \o addPawnPromotions(p, pawnRightCaptured \cap lastRow, rightCaptureMovement, TRUE)
      pawnLeftEnPassant ==
        shiftLeft(and_not(makeIndex(getEnPassantSquare(p) + fileDirection) \cap turnPawns,
                          leftFile), leftCaptureMovement)
      pawnRightEnPassant ==
        shiftLeft(and_not(makeIndex(getEnPassantSquare(p) - fileDirection) \cap turnPawns,
                          rightFile), rightCaptureMovement)
      enPassant ==
        IF canEnPassant(p)
        THEN addPawnMoves(p, pawnLeftEnPassant, leftCaptureMovement, EN_PASSANT_CAPTURE)
              \o addPawnMoves(p, pawnRightEnPassant, rightCaptureMovement, EN_PASSANT_CAPTURE)
        ELSE <<>>
  IN quiet \o captures \o enPassant

\* the knight, queen, bishop, rook, king and castle part of generateMoves
generatePieceMoves(p, onlyCaptures) ==
  LET turnColor == getTurnColor(p)
      opponentBB == getColorBitboard(p, getOtherPieceColor(turnColor))
      occupied == getOccupiedBitboard(p)
      mask == IF onlyCaptures THEN not(getColorBitboard(p, turnColor)) \cap opponentBB
              ELSE not(getColorBitboard(p, turnColor))
      turnKnights == extractAll(getPieceColorBitboard(p, KNIGHT, turnColor))
      turnQueens == extractAll(getPieceColorBitboard(p, QUEEN, turnColor))
      turnBishops == extractAll(getPieceColorBitboard(p, BISHOP, turnColor))
      turnRooks == extractAll(getPieceColorBitboard(p, ROOK, turnColor))
      kingPosition == getKingPosition(p, turnColor)
  IN concatAll([i \in 1 .. Len(turnKnights) |->
        addNormalMoves(p, turnKnights[i],
                       KNIGHT_MOVEMENTS[turnKnights[i]] \cap mask, KNIGHT)])
     \o concatAll([i \in 1 .. Len(turnQueens) |->
        addNormalMoves(p, turnQueens[i],
                       (makeBishopAttackMask(makeIndex(turnQueens[i]), occupied)
                         \cup makeRookAttackMask(makeIndex(turnQueens[i]), occupied))
                        \cap mask, QUEEN)])
     \o concatAll([i \in 1 .. Len(turnBishops) |->
        addNormalMoves(p, turnBishops[i],
                       makeBishopAttackMask(makeIndex(turnBishops[i]), occupied) \cap mask,
                       BISHOP)])
     \o concatAll([i \in 1 .. Len(turnRooks) |->
        addNormalMoves(p, turnRooks[i],
                       makeRookAttackMask(makeIndex(turnRooks[i]), occupied) \cap mask,
                       ROOK)])
     \o addNormalMoves(p, kingPosition, KING_MOVEMENTS[kingPosition] \cap mask, KING)
     \o (IF ~onlyCaptures /\ canCastle(p, turnColor, TRUE, TRUE)
         THEN <<Move(kingPosition, kingPosition + 2, KING_CASTLE, KING, Null)>>
         ELSE <<>>)
     \o (IF ~onlyCaptures /\ canCastle(p, turnColor, FALSE, TRUE)
         THEN <<Move(kingPosition, kingPosition - 2, QUEEN_CASTLE, KING, Null)>>
         ELSE <<>>)

\* generateMoves whose pawn pushes are not guarded by !onlyCaptures
generateMoves_PushesAlways(p, onlyCaptures) ==
  generatePawnMoves(p, FALSE) \o generatePieceMoves(p, onlyCaptures)

\* the pseudo-legal moves of p, in the order of the list the source builds
generateMoves(p, onlyCaptures) ==
  generatePawnMoves(p, onlyCaptures) \o generatePieceMoves(p, onlyCaptures)

\* capturePiece without this.bitboards[piece].clearBit(index)
capturePiece_KeepPiece(p, piece, color, index) ==
  [p EXCEPT !.bitboards = [@ EXCEPT ![ANY_WHITE + color] = clearBit(@, index)],
            !.pieces = [@ EXCEPT ![index] = Null],
            !.hashKey = updatePieceColorSquare(@, piece, color, index)]

capturePiece(p, piece, color, index) ==
  [p EXCEPT !.bitboards = [@ EXCEPT ![piece] = clearBit(@, index),
                                    ![ANY_WHITE + color] = clearBit(@, index)],
            !.pieces = [@ EXCEPT ![index] = Null],
            !.hashKey = updatePieceColorSquare(@, piece, color, index)]

\* unCapturePiece without this.bitboards[Chess.Position.ANY_WHITE + color].setBit(index)
unCapturePiece_NoColor(p, piece, color, index) ==
  [p EXCEPT !.bitboards = [@ EXCEPT ![piece] = setBit(@, index)],
            !.pieces = [@ EXCEPT ![index] = piece],
            !.hashKey = updatePieceColorSquare(@, piece, color, index)]

unCapturePiece(p, piece, color, index) ==
  [p EXCEPT !.bitboards = [@ EXCEPT ![piece] = setBit(@, index),
                                    ![ANY_WHITE + color] = setBit(@, index)],
            !.pieces = [@ EXCEPT ![index] = piece],
            !.hashKey = updatePieceColorSquare(@, piece, color, index)]

\* movePiece that sets the to bit of the piece bitboard and leaves the from bit
movePiece_KeepsFrom(p, piece, color, from, to) ==
  LET fromToBB == makeIndex(from) \cup makeIndex(to)
  IN [p EXCEPT !.bitboards = [@ EXCEPT ![piece] = setBit(@, to),
                                       ![ANY_WHITE + color] = xor(@, fromToBB)],
               !.pieces = [[@ EXCEPT ![from] = Null] EXCEPT ![to] = piece],
               !.hashKey = updatePieceColorSquare(
                             updatePieceColorSquare(@, piece, color, from),
                             piece, color, to)]

movePiece(p, piece, color, from, to) ==
  LET fromToBB == makeIndex(from) \cup makeIndex(to)
  IN [p EXCEPT !.bitboards = [@ EXCEPT ![piece] = xor(@, fromToBB),
                                       ![ANY_WHITE + color] = xor(@, fromToBB)],
               !.pieces = [[@ EXCEPT ![from] = Null] EXCEPT ![to] = piece],
               !.hashKey = updatePieceColorSquare(
                             updatePieceColorSquare(@, piece, color, from),
                             piece, color, to)]

castleRook(p, color, kingSide) ==
  LET from == getCastlingRookSquare(color, kingSide)
      to == from + (IF kingSide THEN -2 ELSE 3)
  IN movePiece(p, ROOK, color, from, to)

unCastleRook(p, color, kingSide) ==
  LET to == getCastlingRookSquare(color, kingSide)
      from == to + (IF kingSide THEN -2 ELSE 3)
  IN movePiece(p, ROOK, color, from, to)

\* promotePiece without this.pieces[index] = pieceNew
promotePiece_NoTable(p, pieceOld, pieceNew, color, index) ==
  [p EXCEPT !.bitboards = [[@ EXCEPT ![pieceOld] = clearBit(@, index)]
                              EXCEPT ![pieceNew] = setBit(@, index)],
            !.hashKey = updatePieceColorSquare(
                          updatePieceColorSquare(@, pieceOld, color, index),
                          pieceNew, color, index)]

promotePiece(p, pieceOld, pieceNew, color, index) ==
  [p EXCEPT !.bitboards = [[@ EXCEPT ![pieceOld] = clearBit(@, index)]
                              EXCEPT ![pieceNew] = setBit(@, index)],
            !.pieces = [@ EXCEPT ![index] = pieceNew],
            !.hashKey = updatePieceColorSquare(
                          updatePieceColorSquare(@, pieceOld, color, index),
                          pieceNew, color, index)]

updatePieces(p, move) ==
  LET p1 == IF isCapture(move)
            THEN capturePiece(p, getCapturedPiece(move),
                              getOtherPieceColor(getTurnColor(p)), getCaptureSquare(move))
            ELSE p
      p2 == IF isCastle(move)
            THEN castleRook(p1, getTurnColor(p1), getKind(move) = KING_CASTLE)
            ELSE p1
      p3 == movePiece(p2, getPiece(move), getTurnColor(p2), getFrom(move), getTo(move))
  IN IF isPromotion(move)
     THEN promotePiece(p3, PAWN, getPromotedPiece(move), getTurnColor(p3), getTo(move))
     ELSE p3

\* revertPieces without the unCapturePiece call
revertPieces_NoUnCapture(p, move) ==
  LET p1 == IF isPromotion(move)
            THEN promotePiece(p, getPromotedPiece(move), PAWN, getTurnColor(p), getTo(move))
            ELSE p
      p2 == movePiece(p1, getPiece(move), getTurnColor(p1), getTo(move), getFrom(move))
  IN IF isCastle(move)
     THEN unCastleRook(p2, getTurnColor(p2), getKind(move) = KING_CASTLE)
     ELSE p2

revertPieces(p, move) ==
  LET p1 == IF isPromotion(move)
            THEN promotePiece(p, getPromotedPiece(move), PAWN, getTurnColor(p), getTo(move))
            ELSE p
      p2 == movePiece(p1, getPiece(move), getTurnColor(p1), getTo(move), getFrom(move))
      p3 == IF isCastle(move)
            THEN unCastleRook(p2, getTurnColor(p2), getKind(move) = KING_CASTLE)
            ELSE p2
  IN IF isCapture(move)
     THEN unCapturePiece(p3, getCapturedPiece(move),
                         getOtherPieceColor(getTurnColor(p3)), getCaptureSquare(move))
     ELSE p3

\* isMoveLegal without this.revertPieces(move)
isMoveLegal_NoRevert(p, move) ==
  LET p1 == updatePieces(p, move)
  IN [legal |-> ~isKingInCheck(p1), pos |-> p1]

\* isMoveLegal that tests the king where it stands and tries nothing
isMoveLegal_NoTrial(p, move) == [legal |-> ~isKingInCheck(p), pos |-> p]

\* isMoveLegal that tries nothing and answers true
isMoveLegal_Always(p, move) == [legal |-> TRUE, pos |-> p]

\* isMoveLegal mutates the position and reverts it: the result and the
\* position it leaves behind
isMoveLegal(p, move) ==
  LET p1 == updatePieces(p, move)
      kingInCheck == isKingInCheck(p1)
  IN [legal |-> ~kingInCheck, pos |-> revertPieces(p1, move)]

RECURSIVE filterLegal(_, _, _, _)
\* moves.filter(isMoveLegal, this): the calls are made in list order on the
\* position as the previous call left it
filterLegal(p, moves, i, kept) ==
  IF i > Len(moves) THEN [moves |-> kept, pos |-> p]
  ELSE LET r == isMoveLegal(p, moves[i])
       IN IF r.legal THEN filterLegal(r.pos, moves, i + 1, Append(kept, moves[i]))
          ELSE filterLegal(r.pos, moves, i + 1, kept)

\* the list getMoves returns and the position it leaves behind
getMoves(p, pseudoLegal, onlyCaptures) ==
  LET moves == generateMoves(p, onlyCaptures)
  IN IF pseudoLegal THEN [moves |-> moves, pos |-> p]
     ELSE filterLegal(p, moves, 1, <<>>)

\* the castling rights part of makeMove without the rook that leaves home
makeMoveCastlingRights_NoRookMove(p, move) ==
  LET turnColor == getTurnColor(p)
      otherColor == getOtherPieceColor(turnColor)
      p1 == IF getPiece(move) = KING
            THEN clearCastlingRight(clearCastlingRight(p, turnColor, TRUE), turnColor, FALSE)
            ELSE p
  IN IF getCapturedPiece(move) = ROOK
     THEN IF getCaptureSquare(move) = getCastlingRookSquare(otherColor, TRUE)
          THEN clearCastlingRight(p1, otherColor, TRUE)
          ELSE IF getCaptureSquare(move) = getCastlingRookSquare(otherColor, FALSE)
          THEN clearCastlingRight(p1, otherColor, FALSE)
          ELSE p1
     ELSE p1

\* the castling rights part of makeMove without the captured rook
makeMoveCastlingRights_NoCapture(p, move) ==
  LET turnColor == getTurnColor(p)
  IN IF getPiece(move) = KING
     THEN clearCastlingRight(clearCastlingRight(p, turnColor, TRUE), turnColor, FALSE)
     ELSE IF getPiece(move) = ROOK
     THEN IF getFrom(move) = getCastlingRookSquare(turnColor, TRUE)
          THEN clearCastlingRight(p, turnColor, TRUE)
          ELSE IF getFrom(move) = getCastlingRookSquare(turnColor, FALSE)
          THEN clearCastlingRight(p, turnColor, FALSE)
          ELSE p
     ELSE p

\* the castling rights part of makeMove
makeMoveCastlingRights(p, move) ==
  LET turnColor == getTurnColor(p)
      otherColor == getOtherPieceColor(turnColor)
      p1 == IF getPiece(move) = KING
            THEN clearCastlingRight(clearCastlingRight(p, turnColor, TRUE), turnColor, FALSE)
            ELSE IF getPiece(move) = ROOK
            THEN IF getFrom(move) = getCastlingRookSquare(turnColor, TRUE)
                 THEN clearCastlingRight(p, turnColor, TRUE)
                 ELSE IF getFrom(move) = getCastlingRookSquare(turnColor, FALSE)
                 THEN clearCastlingRight(p, turnColor, FALSE)
                 ELSE p
            ELSE p
  IN IF getCapturedPiece(move) = ROOK
     THEN IF getCaptureSquare(move) = getCastlingRookSquare(otherColor, TRUE)
          THEN clearCastlingRight(p1, otherColor, TRUE)
          ELSE IF getCaptureSquare(move) = getCastlingRookSquare(otherColor, FALSE)
          THEN clearCastlingRight(p1, otherColor, FALSE)
          ELSE p1
     ELSE p1

\* makeMove: the value returned and the position afterwards
makeMove(p, move) ==
  LET p0 == [p EXCEPT !.hashHistory = Append(@, p.hashKey)]
      p1 == updatePieces(p0, move)
  IN IF isKingInCheck(p1)
     THEN [ok |-> FALSE,
           pos |-> [revertPieces(p1, move) EXCEPT
                      !.hashHistory = SubSeq(@, 1, Len(@) - 1)]]
     ELSE LET p2 == [p1 EXCEPT
                       !.madeMoves = Append(@, move),
                       !.irreversibleHistory =
                          @ \o <<p1.enPassantSquare, p1.castlingRights, p1.halfmoveClock>>]
              ep == IF getKind(move) = DOUBLE_PAWN_PUSH THEN getTo(move) ELSE -1
              p3 == [p2 EXCEPT
                       !.enPassantSquare = ep,
                       !.hashKey = updateEnPassantSquare(
                                     updateEnPassantSquare(@, p2.enPassantSquare), ep)]
              p4 == makeMoveCastlingRights(p3, move)
              p5 == [p4 EXCEPT
                       !.halfmoveClock =
                          IF isCapture(move) \/ getPiece(move) = PAWN THEN 0 ELSE @ + 1]
          IN [ok |-> TRUE,
              pos |-> [p5 EXCEPT !.turn = getOtherPieceColor(getTurnColor(p5)),
                                 !.hashKey = updateTurn(@)]]

getMadeMoveCount(p) == Len(p.madeMoves)

canUndo(p) == getMadeMoveCount(p) # 0

getLastMove(p) ==
  IF ~canUndo(p) THEN Null ELSE p.madeMoves[Len(p.madeMoves)]

\* unmakeMove without the restoration of the en-passant square
unmakeMove_NoEnPassant(p) ==
  IF ~canUndo(p) THEN [move |-> Null, pos |-> p]
  ELSE LET move == p.madeMoves[Len(p.madeMoves)]
           n == Len(p.irreversibleHistory)
           p1 == [p EXCEPT !.madeMoves = SubSeq(@, 1, Len(@) - 1),
                           !.turn = getOtherPieceColor(getTurnColor(p)),
                           !.hashKey = updateTurn(@)]
           p2 == revertPieces(p1, move)
           p3 == [p2 EXCEPT !.halfMoveClock = p2.irreversibleHistory[n]]
           p4 == [p3 EXCEPT
                    !.castlingRights = p3.irreversibleHistory[n - 1],
                    !.hashKey = updateCastlingRights(
                                  updateCastlingRights(@, p3.castlingRights),
                                  p3.irreversibleHistory[n - 1])]
       IN [move |-> move,
           pos |-> [p4 EXCEPT !.irreversibleHistory = SubSeq(@, 1, n - 3),
                              !.hashHistory = SubSeq(@, 1, Len(@) - 1)]]

\* unmakeMove with the turn handed over before the canUndo() test
unmakeMove_TurnFirst(p) ==
  IF ~canUndo(p)
  THEN [move |-> Null,
        pos |-> [p EXCEPT !.turn = getOtherPieceColor(getTurnColor(p)),
                          !.hashKey = updateTurn(@)]]
  ELSE LET move == p.madeMoves[Len(p.madeMoves)]
           n == Len(p.irreversibleHistory)
           p1 == [p EXCEPT !.madeMoves = SubSeq(@, 1, Len(@) - 1),
                           !.turn = getOtherPieceColor(getTurnColor(p)),
                           !.hashKey = updateTurn(@)]
           p2 == revertPieces(p1, move)
           p3 == [p2 EXCEPT !.halfMoveClock = p2.irreversibleHistory[n]]
           p4 == [p3 EXCEPT
                    !.castlingRights = p3.irreversibleHistory[n - 1],
                    !.hashKey = updateCastlingRights(
                                  updateCastlingRights(@, p3.castlingRights),
                                  p3.irreversibleHistory[n - 1])]
           p5 == [p4 EXCEPT
                    !.enPassantSquare = p4.irreversibleHistory[n - 2],
                    !.hashKey = updateEnPassantSquare(
                                  updateEnPassantSquare(@, p4.enPassantSquare),
                                  p4.irreversibleHistory[n - 2])]
       IN [move |-> move,
           pos |-> [p5 EXCEPT !.irreversibleHistory = SubSeq(@, 1, n - 3),
                              !.hashHistory = SubSeq(@, 1, Len(@) - 1)]]

\* unmakeMove: the value returned and the position afterwards.  The popped
\* clock is assigned to the property halfMoveClock, which is not the property
\* halfmoveClock that makeMove and isFiftyMoveRuleDraw use.
unmakeMove(p) ==
  IF ~canUndo(p) THEN [move |-> Null, pos |-> p]
  ELSE LET move == p.madeMoves[Len(p.madeMoves)]
           n == Len(p.irreversibleHistory)
           p1 == [p EXCEPT !.madeMoves = SubSeq(@, 1, Len(@) - 1),
                           !.turn = getOtherPieceColor(getTurnColor(p)),
                           !.hashKey = updateTurn(@)]
           p2 == revertPieces(p1, move)
           p3 == [p2 EXCEPT !.halfMoveClock = p2.irreversibleHistory[n]]
           p4 == [p3 EXCEPT
                    !.castlingRights = p3.irreversibleHistory[n - 1],
                    !.hashKey = updateCastlingRights(
                                  updateCastlingRights(@, p3.castlingRights),
                                  p3.irreversibleHistory[n - 1])]
           p5 == [p4 EXCEPT
                    !.enPassantSquare = p4.irreversibleHistory[n - 2],
                    !.hashKey = updateEnPassantSquare(
                                  updateEnPassantSquare(@, p4.enPassantSquare),
                                  p4.irreversibleHistory[n - 2])]
       IN [move |-> move,
           pos |-> [p5 EXCEPT !.irreversibleHistory = SubSeq(@, 1, n - 3),
                              !.hashHistory = SubSeq(@, 1, Len(@) - 1)]]

\* getStatus with the two results of the empty move list exchanged
getStatus_Swapped(p) ==
  LET r == getMoves(p, FALSE, FALSE)
      q == r.pos
  IN [pos |-> q,
      status |->
        IF Len(r.moves) = 0
        THEN (IF isKingInCheck(q) THEN STALEMATE_DRAW ELSE CHECKMATE)
        ELSE IF isFiftyMoveRuleDraw(q) THEN FIFTY_MOVE_RULE_DRAW
        ELSE IF isThreefoldRepetitionRuleDraw(q) THEN THREEFOLD_REPETITION_RULE_DRAW
        ELSE IF isInsufficientMaterialDraw(q) THEN INSUFFICIENT_MATERIAL_DRAW
        ELSE NORMAL]

\* getStatus: the status returned and the position the getMoves() call leaves
getStatus(p) ==
  LET r == getMoves(p, FALSE, FALSE)
      q == r.pos
  IN [pos |-> q,
      status |->
        IF Len(r.moves) = 0
        THEN (IF isKingInCheck(q) THEN CHECKMATE ELSE STALEMATE_DRAW)
        ELSE IF isFiftyMoveRuleDraw(q) THEN FIFTY_MOVE_RULE_DRAW
        ELSE IF isThreefoldRepetitionRuleDraw(q) THEN THREEFOLD_REPETITION_RULE_DRAW
        ELSE IF isInsufficientMaterialDraw(q) THEN INSUFFICIENT_MATERIAL_DRAW
        ELSE NORMAL]

\* the bitboards the constructor builds
InitialBitboards ==
  [b \in 0 .. 7 |->
     CASE b = PAWN -> RANKS[1] \cup RANKS[6]
       [] b = KNIGHT -> makeIndex(1) \cup makeIndex(6) \cup makeIndex(57) \cup makeIndex(62)
       [] b = BISHOP -> makeIndex(2) \cup makeIndex(5) \cup makeIndex(58) \cup makeIndex(61)
       [] b = ROOK -> makeIndex(0) \cup makeIndex(7) \cup makeIndex(56) \cup makeIndex(63)
       [] b = QUEEN -> makeIndex(3) \cup makeIndex(59)
       [] b = KING -> makeIndex(4) \cup makeIndex(60)
       [] b = ANY_WHITE -> RANKS[0] \cup RANKS[1]
       [] b = ANY_BLACK -> RANKS[6] \cup RANKS[7]]

\* the property halfMoveClock does not exist until unmakeMove creates it
Undefined == -2

\* new Chess.Position
NewPosition ==
  LET p == [hashKey |-> ZobristZero,
            bitboards |-> InitialBitboards,
            pieces |-> fillPiecesFromBitboards(InitialBitboards),
            turn |-> WHITE,
            castlingRights |-> 15,
            enPassantSquare |-> -1,
            halfmoveClock |-> 0,
            halfMoveClock |-> Undefined,
            madeMoves |-> <<>>,
            irreversibleHistory |-> <<>>,
            hashHistory |-> <<>>]
  IN [p EXCEPT !.hashKey = updateHashKey(p)]

\* ----------------------------------------------------------------------- ai.js
\* indexed by piece + 1
PIECE_VALUES == <<100, 300, 300, 500, 900, 20000>>

\* indexed by piece + 1 and square + 1
PIECE_SQUARE_TABLES ==
  <<
     \* pawn
     << 0, 0, 0, 0, 0, 0, 0, 0,
        50, 50, 50, 50, 50, 50, 50, 50,
        10, 10, 20, 30, 30, 20, 10, 10,
        5, 5, 10, 25, 25, 10, 5, 5,
        0, 0, 0, 20, 20, 0, 0, 0,
        5, -5, -10, 0, 0, -10, -5, 5,
        5, 10, 10, -20, -20, 10, 10, 5,
        0, 0, 0, 0, 0, 0, 0, 0 >>,
     \* knight
     << -50, -40, -30, -30, -30, -30, -40, -50,
        -40, -20, 0, 0, 0, 0, -20, -40,
        -30, 0, 10, 15, 15, 10, 0, -30,
        -30, 5, 15, 20, 20, 15, 5, -30,
        -30, 0, 15, 20, 20, 15, 0, -30,
        -30, 5, 10, 15, 15, 10, 5, -30,
        -40, -20, 0, 5, 5, 0, -20, -40,
        -50, -40, -30, -30, -30, -30, -40, -50 >>,
     \* bishop
     << -20, -10, -10, -10, -10, -10, -10, -20,
        -10, 0, 0, 0, 0, 0, 0, -10,
        -10, 0, 5, 10, 10, 5, 0, -10,
        -10, 5, 5, 10, 10, 5, 5, -10,
        -10, 0, 10, 10, 10, 10, 0, -10,
        -10, 10, 10, 10, 10, 10, 10, -10,
        -10, 5, 0, 0, 0, 0, 5, -10,
        -20, -10, -10, -10, -10, -10, -10, -20 >>,
     \* rook
     << 0, 0, 0, 0, 0, 0, 0, 0,
        5, 10, 10, 10, 10, 10, 10, 5,
        -5, 0, 0, 0, 0, 0, 0, -5,
        -5, 0, 0, 0, 0, 0, 0, -5,
        -5, 0, 0, 0, 0, 0, 0, -5,
        -5, 0, 0, 0, 0, 0, 0, -5,
        -5, 0, 0, 0, 0, 0, 0, -5,
        0, 0, 0, 5, 5, 0, 0, 0 >>,
     \* queen
     << -20, -10, -10, -5, -5, -10, -10, -20,
        -10, 0, 0, 0, 0, 0, 0, -10,
        -10, 0, 5, 5, 5, 5, 0, -10,
        -5, 0, 5, 5, 5, 5, 0, -5,
        0, 0, 5, 5, 5, 5, 0, -5,
        -10, 5, 5, 5, 5, 5, 0, -10,
        -10, 0, 5, 0, 0, 0, 0, -10,
        -20, -10, -10, -5, -5, -10, -10, -20 >>,
     \* king middle game
     << -30, -40, -40, -50, -50, -40, -40, -30,
        -30, -40, -40, -50, -50, -40, -40, -30,
        -30, -40, -40, -50, -50, -40, -40, -30,
        -30, -40, -40, -50, -50, -40, -40, -30,
        -20, -30, -30, -40, -40, -30, -30, -20,
        -10, -20, -20, -20, -20, -20, -20, -10,
        20, 20, 0, 0, 0, 0, 20, 20,
        20, 30, 10, 0, 0, 10, 30, 20 >>
  >>

BISHOP_PAIR_VALUE == PIECE_VALUES[PAWN + 1] \div 2

\* the loop over the pieces PAWN .. piece, below KING
RECURSIVE materialLoop(_, _, _)
materialLoop(p, color, piece) ==
  IF piece < PAWN THEN 0
  ELSE popcnt(getPieceColorBitboard(p, piece, color)) * PIECE_VALUES[piece + 1]
       + materialLoop(p, color, piece - 1)

getMaterialValue(p, color) ==
  materialLoop(p, color, QUEEN)
  + (IF popcnt(getPieceColorBitboard(p, BISHOP, color)) > 1 THEN BISHOP_PAIR_VALUE ELSE 0)

evaluateMaterial(p) == getMaterialValue(p, WHITE) - getMaterialValue(p, BLACK)

\* 56 ^ index: the same file on the mirrored rank
flipRank(index) == (LAST_RANK - getRank(index)) * FILES_N + getFile(index)

\* the while loop over the bits of one piece bitboard
RECURSIVE squareLoop(_, _, _)
squareLoop(piece, color, pieces) ==
  IF isEmpty(pieces) THEN 0
  ELSE LET index == getLowestBitPosition(pieces)
       IN PIECE_SQUARE_TABLES[piece + 1][(IF color # 0 THEN index ELSE flipRank(index)) + 1]
          + squareLoop(piece, color, popLowestBit(pieces))

\* the loop over the pieces PAWN .. piece, KING included
RECURSIVE pieceSquareLoop(_, _, _)
pieceSquareLoop(p, color, piece) ==
  IF piece < PAWN THEN 0
  ELSE squareLoop(piece, color, getPieceColorBitboard(p, piece, color))
       + pieceSquareLoop(p, color, piece - 1)

getPieceSquareValue(p, color) == pieceSquareLoop(p, color, KING)

evaluateLocations(p) == getPieceSquareValue(p, WHITE) - getPieceSquareValue(p, BLACK)

evaluate(p) == evaluateMaterial(p) + evaluateLocations(p)

\* scoreMove times 60: the quotient (1 + captured) / (1 + piece) has a
\* denominator in 1 .. 6, so 60 times the score is an integer, and the order of
\* the scores is the order of these integers
scoreMove(move) ==
  LET score0 == IF isCapture(move)
                THEN (60 * (1 + getCapturedPiece(move))) \div (1 + getPiece(move))
                ELSE 0
      score1 == 6 * score0 + 60 * getPiece(move)
      score2 == 16 * score1 + 60 * getKind(move)
      score3 == 64 * score2 + 60 * getTo(move)
  IN 64 * score3 + 60 * getFrom(move)

\* compareMoves(a, b) < 0: a goes before b
compareMoves(a, b) == scoreMove(b) - scoreMove(a)

\* moves.sort(compareMoves)
sortMoves(moves) == SortSeq(moves, LAMBDA a, b : compareMoves(a, b) < 0)

\* ------------------------------------------------------------ the games played
getIndex(rank, file) == file + rank * FILES_N

\* the square of file 1..8 (a..h) and rank 1..8
S(file, rank) == getIndex(rank - 1, file - 1)

\* calls of unmakeMove in one run
MaxUndo == 2

\* 1.e4 e5 2.Nf3 Nc6 3.Bc4 Bc5 4.0-0 Nf6 5.d3 0-0
LineItalian ==
  << <<S(5,2), S(5,4)>>, <<S(5,7), S(5,5)>>, <<S(7,1), S(6,3)>>,
     <<S(2,8), S(3,6)>>, <<S(6,1), S(3,4)>>, <<S(6,8), S(3,5)>>,
     <<S(5,1), S(7,1)>>, <<S(7,8), S(6,6)>>, <<S(4,2), S(4,3)>>,
     <<S(5,8), S(7,8)>> >>

\* 1.d4 d5 2.Bf4 Bf5 3.Qd2 Qd7 4.Nc3 Nc6 5.0-0-0 0-0-0: before move 4 the
\* squares c1 and d1 are empty and b1 is not
LineQueenSide ==
  << <<S(4,2), S(4,4)>>, <<S(4,7), S(4,5)>>, <<S(3,1), S(6,4)>>,
     <<S(3,8), S(6,5)>>, <<S(4,1), S(4,2)>>, <<S(4,8), S(4,7)>>,
     <<S(2,1), S(3,3)>>, <<S(2,8), S(3,6)>>, <<S(5,1), S(3,1)>>,
     <<S(5,8), S(3,8)>> >>

\* 1.e4 e5 2.f4 Bc5 3.Nf3 d6 4.Bc4 Nc6 5.d3: at move 5 f1 and g1 are empty
\* and g1 is attacked by the bishop on c5
LineKingsGambit ==
  << <<S(5,2), S(5,4)>>, <<S(5,7), S(5,5)>>, <<S(6,2), S(6,4)>>,
     <<S(6,8), S(3,5)>>, <<S(7,1), S(6,3)>>, <<S(4,7), S(4,6)>>,
     <<S(6,1), S(3,4)>>, <<S(2,8), S(3,6)>>, <<S(4,2), S(4,3)>> >>

\* 1.e4 a6 2.e5 d5 3.exd6 e.p. cxd6
LineEnPassant ==
  << <<S(5,2), S(5,4)>>, <<S(1,7), S(1,6)>>, <<S(5,4), S(5,5)>>,
     <<S(4,7), S(4,5)>>, <<S(5,5), S(4,6)>>, <<S(3,7), S(4,6)>> >>

\* 1.e4 d5 2.Bb5+ c6: after 2.Bb5+ most pseudo-legal moves are rejected
LineCheck ==
  << <<S(5,2), S(5,4)>>, <<S(4,7), S(4,5)>>, <<S(6,1), S(2,5)>>,
     <<S(3,7), S(3,6)>> >>

\* 1.h4 g5 2.hxg5 h6 3.gxh6 Nf6 4.h7 Rg8 5.hxg8 (any promotion) Nxg8
LinePromotion ==
  << <<S(8,2), S(8,4)>>, <<S(7,7), S(7,5)>>, <<S(8,4), S(7,5)>>,
     <<S(8,7), S(8,6)>>, <<S(7,5), S(8,6)>>, <<S(7,8), S(6,6)>>,
     <<S(8,6), S(8,7)>>, <<S(8,8), S(7,8)>>, <<S(8,7), S(7,8)>>,
     <<S(6,6), S(7,8)>> >>

\* 1.f3 e5 2.g4 Qh4#
LineFoolsMate ==
  << <<S(6,2), S(6,3)>>, <<S(5,7), S(5,5)>>, <<S(7,2), S(7,4)>>,
     <<S(4,8), S(8,4)>> >>

\* 1.e3 a5 2.Qh5 Ra6 3.Qxa5 h5 4.h4 Rah6 5.Qxc7 f6 6.Qxd7+ Kf7 7.Qxb7 Qd3
\* 8.Qxb8 Qh7 9.Qxc8 Kg6 10.Qe6: black is stalemated
LineStalemate ==
  << <<S(5,2), S(5,3)>>, <<S(1,7), S(1,5)>>, <<S(4,1), S(8,5)>>,
     <<S(1,8), S(1,6)>>, <<S(8,5), S(1,5)>>, <<S(8,7), S(8,5)>>,
     <<S(8,2), S(8,4)>>, <<S(1,6), S(8,6)>>, <<S(1,5), S(3,7)>>,
     <<S(6,7), S(6,6)>>, <<S(3,7), S(4,7)>>, <<S(5,8), S(6,7)>>,
     <<S(4,7), S(2,7)>>, <<S(4,8), S(4,3)>>, <<S(2,7), S(2,8)>>,
     <<S(4,3), S(8,7)>>, <<S(2,8), S(3,8)>>, <<S(6,7), S(7,6)>>,
     <<S(3,8), S(5,6)>> >>

\* 1.Nf3 Nf6 2.Ng1 Ng8 3.Nf3 ... for 101 plies: no capture, no pawn move
LineShuffle ==
  [i \in 1 .. 101 |->
     CASE i % 4 = 1 -> <<S(7,1), S(6,3)>>
       [] i % 4 = 2 -> <<S(7,8), S(6,6)>>
       [] i % 4 = 3 -> <<S(6,3), S(7,1)>>
       [] i % 4 = 0 -> <<S(6,6), S(7,8)>>]

\* 1.b3 g6 2.Bb2 a6 3.Bxh8: a rook is captured on its home square
LineRookCapture ==
  << <<S(2,2), S(2,3)>>, <<S(7,7), S(7,6)>>, <<S(3,1), S(2,2)>>,
     <<S(1,7), S(1,6)>>, <<S(2,2), S(8,8)>> >>

\* 1.d4 a6 2.d5 a5 3.f4 a4 4.f5 e5 5.dxe6 e.p.: after 4...e5 a white pawn
\* stands on each side of the pushed pawn
LineTwoEnPassant ==
  << <<S(4,2), S(4,4)>>, <<S(1,7), S(1,6)>>, <<S(4,4), S(4,5)>>,
     <<S(1,6), S(1,5)>>, <<S(6,2), S(6,4)>>, <<S(1,5), S(1,4)>>,
     <<S(6,4), S(6,5)>>, <<S(5,7), S(5,5)>>, <<S(4,5), S(5,6)>> >>

\* 1.a3 d5 2.a4 d4 3.e4 dxe3 e.p.: black captures en passant
LineEnPassantBlack ==
  << <<S(1,2), S(1,3)>>, <<S(4,7), S(4,5)>>, <<S(1,3), S(1,4)>>,
     <<S(4,5), S(4,4)>>, <<S(5,2), S(5,4)>>, <<S(4,4), S(5,3)>> >>

\* 1.h4 a5 2.b3: after 1...a5 the square before a5 in the numbering is h4,
\* with a white pawn on it
LineEnPassantEdge ==
  << <<S(8,2), S(8,4)>>, <<S(1,7), S(1,5)>>, <<S(2,2), S(2,3)>> >>

\* 1.b3 a5 2.h4 b6: after 2.h4 the square after h4 in the numbering is a5,
\* with a black pawn on it
LineEnPassantEdgeBlack ==
  << <<S(2,2), S(2,3)>>, <<S(1,7), S(1,5)>>, <<S(8,2), S(8,4)>>,
     <<S(2,7), S(2,6)>> >>

\* 1.a3 h5 2.g4 hxg4 3.a4 g3 4.a5 gxh2 5.a6 hxg1 (any promotion): a black
\* pawn promotes
LinePromotionBlack ==
  << <<S(1,2), S(1,3)>>, <<S(8,7), S(8,5)>>, <<S(7,2), S(7,4)>>,
     <<S(8,5), S(7,4)>>, <<S(1,3), S(1,4)>>, <<S(7,4), S(7,3)>>,
     <<S(1,4), S(1,5)>>, <<S(7,3), S(8,2)>>, <<S(1,5), S(1,6)>>,
     <<S(8,2), S(7,1)>> >>

\* 1.Nf3 a5 2.e3 Ra6 3.Be2 h6 4.O-O: white may castle after black's rook
\* has left a8
LineRookLeaves ==
  << <<S(7,1), S(6,3)>>, <<S(1,7), S(1,5)>>, <<S(5,2), S(5,3)>>,
     <<S(1,8), S(1,6)>>, <<S(6,1), S(5,2)>>, <<S(8,7), S(8,6)>>,
     <<S(5,1), S(7,1)>> >>

\* the games that are replayed move by move
Lines ==
  { LineItalian, LineQueenSide, LineKingsGambit, LineEnPassant, LineCheck,
    LinePromotion, LineFoolsMate, LineStalemate, LineShuffle, LineRookCapture,
    LineTwoEnPassant, LineEnPassantBlack, LineEnPassantEdge,
    LineEnPassantEdgeBlack, LinePromotionBlack, LineRookLeaves }

\* the from and to squares of the moves made
Played(p) == [i \in 1 .. Len(p.madeMoves) |->
                <<getFrom(p.madeMoves[i]), getTo(p.madeMoves[i])>>]

IsPrefix(s, t) == Len(s) <= Len(t) /\ \A i \in 1 .. Len(s) : s[i] = t[i]

\* the game is the beginning of a line
OnLine(p) == \E l \in Lines : IsPrefix(Played(p), l)

\* the games after which every move of the list may be played, before and
\* after take-backs; a game that is none of these goes on along a line only,
\* and only while no move has been taken back
OpenGames == { <<>> }

\* ------------------------------------------------------------ the state machine
\* position: the Position object; ret: what the last call returned;
\* undos: the calls of unmakeMove so far; perftDepth: the depth a running
\* perft was called with; perftFrames: its invocations that have not returned
\* yet, outermost first; perftResult: what the outermost invocation returned
VARIABLES position, ret, undos, perftDepth, perftFrames, perftResult,
          searchFrames, searchResult, evaluated, calledOn,
          parser, bitboard, zobrist, randomValues, call

vars == <<position, ret, undos, perftDepth, perftFrames, perftResult,
          searchFrames, searchResult, evaluated, calledOn,
          parser, bitboard, zobrist, randomValues, call>>

perftVars == <<perftDepth, perftFrames, perftResult>>

searchVars == <<searchFrames, searchResult, evaluated, calledOn>>

\* search has not returned
NotReturned == [returned |-> FALSE, bestMove |-> Null]

\* evaluated: the node whose evaluation the last step finished, with the value
\* returned for it (valid is FALSE when the step finished none); calledOn: the
\* position as it was when search was called (the new position before that)
NoNode == [valid |-> FALSE, node |-> NewPosition, value |-> 0, kind |-> "", depth |-> 0]

NoSearch ==
  /\ searchFrames = <<>>
  /\ searchResult = NotReturned
  /\ evaluated = NoNode
  /\ calledOn = NewPosition

\* the objects the unit tests work on.  parser: the tokens of the text given
\* to parseMoves, the index of the next one and how far the call has got (its
\* Position is the variable position); bitboard: a Chess.Bitboard, and
\* zobrist: a Chess.Zobrist, each with its two 32 bit halves; randomValues:
\* the table Chess.Zobrist.RANDOM_VALUES; call: the last method called on one
\* of them or the last Chess.Move constructed, with its arguments and what it
\* returned
unitVars == <<parser, bitboard, zobrist, randomValues, call>>

NoParser == [tokens |-> <<>>, i |-> 1, state |-> "idle", token |-> "", count |-> 0]

\* n counts the calls that made or changed the object under test
NoCall == [fn |-> "", args |-> <<>>, ret |-> Null, n |-> 0]

Zero64 == [low |-> {}, high |-> {}]

NoUnit ==
  /\ parser = NoParser
  /\ bitboard = Zero64
  /\ zobrist = Zero64
  /\ randomValues = <<>>
  /\ call = NoCall

Init ==
  /\ position = NewPosition
  /\ ret = "constructed"
  /\ undos = 0
  /\ perftDepth = 0
  /\ perftFrames = <<>>
  /\ perftResult = Null
  /\ NoSearch
  /\ NoUnit

\* makeMove(move) on a move of the pseudo-legal move list
MakeMove ==
  \E moves \in {generateMoves(position, FALSE)} :
    \E i \in 1 .. Len(moves) :
      \E r \in {makeMove(position, moves[i])} :
        /\ r.ok => \/ Played(position) \in OpenGames
                   \/ undos = 0 /\ OnLine(r.pos)
        /\ position' = r.pos
        /\ ret' = IF r.ok THEN "accepted" ELSE "rejected"
        /\ UNCHANGED <<undos, perftVars, searchVars, unitVars>>

\* unmakeMove()
UnmakeMove ==
  /\ undos < MaxUndo
  /\ \E r \in {unmakeMove(position)} :
        /\ position' = r.pos
        /\ ret' = IF r.move = Null THEN "nothing" ELSE "unmade"
        /\ undos' = undos + 1
        /\ UNCHANGED <<perftVars, searchVars, unitVars>>

Next == MakeMove \/ UnmakeMove

Spec == Init /\ [][Next]_vars

\* --------------------------------------------------------------- perft running
\* the depths test("Perft") calls perft with
PerftDepths == {3, 4}

\* an invocation of perft: its depth, the list getMoves(true) returned, the
\* index of the next move of the forEach loop, and nodes
Frame(depth, p) ==
  [depth |-> depth, moves |-> getMoves(p, TRUE, FALSE).moves, i |-> 1, nodes |-> 0]

Top == perftFrames[Len(perftFrames)]

InitPerft ==
  /\ position = NewPosition
  /\ ret = "constructed"
  /\ undos = 0
  /\ perftDepth \in PerftDepths
  /\ perftFrames = <<>>
  /\ perftResult = Null
  /\ NoSearch
  /\ NoUnit

\* Chess.Position.perft(depth) is called: depth is not 0, the position is new
PerftCall ==
  /\ perftFrames = <<>>
  /\ perftResult = Null
  /\ perftFrames' = <<Frame(perftDepth, position)>>
  /\ UNCHANGED <<position, ret, undos, perftDepth, perftResult, searchVars, unitVars>>

\* one call of the forEach callback of the innermost invocation.  After an
\* accepted move the recursive call perft(depth - 1) returns 1 at once when
\* depth - 1 is 0, and the callback adds it and calls unmakeMove; otherwise
\* the call becomes the innermost invocation, and the callback goes on when
\* it returns.
PerftCallback ==
  /\ perftFrames # <<>>
  /\ Top.i <= Len(Top.moves)
  /\ \E r \in {makeMove(position, Top.moves[Top.i])} :
       IF ~r.ok
       THEN /\ position' = r.pos
            /\ perftFrames' = [perftFrames EXCEPT ![Len(perftFrames)].i = @ + 1]
       ELSE IF Top.depth - 1 # 0
       THEN /\ position' = r.pos
            /\ perftFrames' = Append(perftFrames, Frame(Top.depth - 1, r.pos))
       ELSE /\ position' = unmakeMove(r.pos).pos
            /\ perftFrames' = [perftFrames EXCEPT ![Len(perftFrames)].i = @ + 1,
                                                  ![Len(perftFrames)].nodes = @ + 1]
  /\ UNCHANGED <<ret, undos, perftDepth, perftResult, searchVars, unitVars>>

\* the forEach loop of the innermost invocation is over: it returns nodes, to
\* the callback that called it (nodes += ..., unmakeMove()) or to the test
PerftReturn ==
  /\ perftFrames # <<>>
  /\ Top.i > Len(Top.moves)
  /\ IF Len(perftFrames) = 1
     THEN /\ perftResult' = Top.nodes
          /\ perftFrames' = <<>>
          /\ UNCHANGED position
     ELSE /\ perftFrames' =
               [SubSeq(perftFrames, 1, Len(perftFrames) - 1) EXCEPT
                  ![Len(perftFrames) - 1].i = @ + 1,
                  ![Len(perftFrames) - 1].nodes = @ + Top.nodes]
          /\ position' = unmakeMove(position).pos
          /\ UNCHANGED perftResult
  /\ UNCHANGED <<ret, undos, perftDepth, searchVars, unitVars>>

NextPerft == PerftCall \/ PerftCallback \/ PerftReturn

SpecPerft == InitPerft /\ [][NextPerft]_vars


\* ------------------------------------------------------------- search running
\* -Infinity and Infinity of the root: beyond every value of evaluate, the mate
\* values included
Infinity == 1000000

\* the sorted move list an invocation loops over: all pseudo-legal moves in
\* search and alphaBeta; in quiescenceSearch only the captures, unless the
\* king is in check
sortedMoves(kind, p) ==
  sortMoves(getMoves(p, TRUE, IF kind = "quiescenceSearch"
                              THEN ~isKingInCheck(p) ELSE FALSE).moves)

\* an invocation of search, alphaBeta or quiescenceSearch that has reached its
\* for loop: its arguments and locals (the move list is put in by the step
\* that starts the invocation), the index of the next move, state "loop"
\* until a break or a return inside the loop, and the halfmove clock the
\* position had when the invocation began
SearchFrame(kind, depth, p, alpha, beta) ==
  [kind |-> kind, depth |-> depth, white |-> getTurnColor(p) = WHITE,
   alpha |-> alpha, beta |-> beta, moves |-> <<>>, i |-> 1,
   legal |-> FALSE, bestMove |-> Null, state |-> "loop", value |-> 0,
   clock |-> p.halfmoveClock]

\* a call that returned before its loop, and a call that is in its loop
Returned(value, p) ==
  [done |-> TRUE, value |-> value, frame |-> SearchFrame("", 0, p, 0, 0)]

Looping(frame) == [done |-> FALSE, value |-> 0, frame |-> frame]

\* quiescenceSearch down to its move list and for loop
quiescenceSearch(p, alpha, beta) ==
  IF isDraw(p) THEN Returned(0, p)
  ELSE IF getTurnColor(p) = WHITE
  THEN IF evaluate(p) >= beta THEN Returned(beta, p)
       ELSE Looping(SearchFrame("quiescenceSearch", 0, p,
                                IF evaluate(p) > alpha THEN evaluate(p) ELSE alpha, beta))
  ELSE IF evaluate(p) <= alpha THEN Returned(alpha, p)
       ELSE Looping(SearchFrame("quiescenceSearch", 0, p,
                                alpha, IF evaluate(p) < beta THEN evaluate(p) ELSE beta))

\* alphaBeta down to its move list and for loop
alphaBeta(p, depth, alpha, beta) ==
  IF depth < 1 THEN quiescenceSearch(p, alpha, beta)
  ELSE Looping(SearchFrame("alphaBeta", depth, p, alpha, beta))

\* the recursive call in the loop body of frame f, after makeMove gave p
recursiveCall(f, p) ==
  IF f.kind = "search" THEN alphaBeta(p, 3, f.alpha, f.beta)
  ELSE IF f.kind = "alphaBeta" THEN alphaBeta(p, f.depth - 1, f.alpha, f.beta)
  ELSE quiescenceSearch(p, f.alpha, f.beta)

\* the rest of the loop body of frame f once the recursive call has returned
\* value and unmakeMove() was called
loopBody(f, value) ==
  LET g == [f EXCEPT !.i = @ + 1, !.legal = TRUE]
  IN IF f.kind = "search"
     THEN IF f.white
          THEN IF value > f.alpha
               THEN [g EXCEPT !.alpha = value, !.bestMove = f.moves[f.i]] ELSE g
          ELSE IF value < f.beta
               THEN [g EXCEPT !.beta = value, !.bestMove = f.moves[f.i]] ELSE g
     ELSE IF f.kind = "alphaBeta"
     THEN IF f.white
          THEN [g EXCEPT !.alpha = IF value > @ THEN value ELSE @,
                         !.state = IF f.beta <= (IF value > f.alpha THEN value ELSE f.alpha)
                                   THEN "break" ELSE "loop"]
          ELSE [g EXCEPT !.beta = IF value < @ THEN value ELSE @,
                         !.state = IF (IF value < f.beta THEN value ELSE f.beta) <= f.alpha
                                   THEN "break" ELSE "loop"]
     ELSE IF f.white
          THEN IF value >= f.beta THEN [g EXCEPT !.state = "return", !.value = f.beta]
               ELSE [g EXCEPT !.alpha = IF value > @ THEN value ELSE @]
          ELSE IF value <= f.alpha THEN [g EXCEPT !.state = "return", !.value = f.alpha]
               ELSE [g EXCEPT !.beta = IF value < @ THEN value ELSE @]

\* returnValue of a search that falls back on the first move of its list when
\* no move was kept
returnValue_FirstMove(f, p) ==
  IF f.kind = "search"
  THEN IF f.bestMove = Null /\ f.moves # <<>> THEN f.moves[1] ELSE f.bestMove
  ELSE IF f.kind = "alphaBeta"
  THEN IF ~f.legal
       THEN IF ~isKingInCheck(p) THEN 0
            ELSE IF f.white THEN -PIECE_VALUES[KING + 1] ELSE PIECE_VALUES[KING + 1]
       ELSE IF isDraw(p) THEN 0
       ELSE IF f.white THEN f.alpha ELSE f.beta
  ELSE IF f.state = "return" THEN f.value
  ELSE IF f.white THEN f.alpha ELSE f.beta

\* what frame f returns once its loop is over, p being the position then
returnValue(f, p) ==
  IF f.kind = "search" THEN f.bestMove
  ELSE IF f.kind = "alphaBeta"
  THEN IF ~f.legal
       THEN IF ~isKingInCheck(p) THEN 0
            ELSE IF f.white THEN -PIECE_VALUES[KING + 1] ELSE PIECE_VALUES[KING + 1]
       ELSE IF isDraw(p) THEN 0
       ELSE IF f.white THEN f.alpha ELSE f.beta
  ELSE IF f.state = "return" THEN f.value
  ELSE IF f.white THEN f.alpha ELSE f.beta

SearchTop == searchFrames[Len(searchFrames)]

\* a loop that is left only by break or return
loopOver_BreakOnly(f) == f.state # "loop"

\* the for loop of frame f is over: by break or return, or i < moves.length
\* is false
loopOver(f) == f.state # "loop" \/ f.i > Len(f.moves)

\* the move of the pseudo-legal list with the given from and to squares
moveFromTo(p, ft) ==
  LET moves == generateMoves(p, FALSE)
  IN moves[CHOOSE i \in 1 .. Len(moves) :
             getFrom(moves[i]) = ft[1] /\ getTo(moves[i]) = ft[2]]

\* the position after the first n moves of a game
RECURSIVE positionAfter(_, _)
positionAfter(line, n) ==
  IF n = 0 THEN NewPosition
  ELSE LET p == positionAfter(line, n - 1)
       IN IF p.halfmoveClock >= 0 THEN makeMove(p, moveFromTo(p, line[n])).pos ELSE p

\* the new position after n times makeMove(move) and unmakeMove(), for the
\* knight move b1-a3: each pair leaves halfmoveClock one higher
RECURSIVE takenBack(_, _)
takenBack(p, n) ==
  IF n = 0 THEN p
  ELSE IF n = 1
  THEN unmakeMove(makeMove(p, moveFromTo(p, <<S(2,1), S(1,3)>>)).pos).pos
  ELSE LET q == takenBack(p, n \div 2)
       IN IF q.halfmoveClock >= 0 THEN takenBack(q, n - n \div 2) ELSE q

\* the pairs of makeMove and unmakeMove before search is called
TakeBacks == 97

\* the games played before search is called, each with its number of moves:
\* 1.e4 d5 2.Bb5+ with black in check; 1.f3 e5 2.g4 with black to mate, and
\* after 2...Qh4# with white mated; the 10-move stalemate game with black
\* stalemated; the knight shuffle after 11 plies, where 6...Ng8 brings back
\* the first position once more
SearchGames ==
  { <<LineCheck, 3>>, <<LineFoolsMate, 3>>, <<LineFoolsMate, 4>>,
    <<LineStalemate, 19>>, <<LineShuffle, 11>> }

\* the moves made in p are the first moves of the game
played(p, line) ==
  \A i \in 1 .. Len(p.madeMoves) :
     getFrom(p.madeMoves[i]) = line[i][1] /\ getTo(p.madeMoves[i]) = line[i][2]

\* the knight move b1-a3, made and taken back before search is called
LineKnight == <<<<S(2,1), S(1,3)>>>>

\* the positions search is called on: the new position, the new position
\* after TakeBacks moves made and taken back, and the ends of the games
SearchRoot(p) ==
  \/ p.madeMoves = <<>> /\ p.halfmoveClock \in {0, TakeBacks}
  \/ \E g \in SearchGames : Len(p.madeMoves) = g[2] /\ played(p, g[1])

\* the moves that may be made before search is called: the next move of a
\* game, or the knight move that is taken back afterwards
nextMoves(p) ==
  { g[1][Len(p.madeMoves) + 1] :
      g \in { h \in SearchGames :
                /\ Len(p.madeMoves) < h[2]
                /\ played(p, h[1])
                /\ p.madeMoves = <<>> => p.halfmoveClock = 0 } }
  \cup (IF p.madeMoves = <<>> /\ p.halfmoveClock < TakeBacks THEN {LineKnight[1]} ELSE {})

\* the knight move is the only move made and can be taken back
canTakeBack(p) == Len(p.madeMoves) = 1 /\ played(p, LineKnight)

InitSearch ==
  /\ position = NewPosition
  /\ ret = "constructed"
  /\ undos = 0
  /\ perftDepth = 0
  /\ perftFrames = <<>>
  /\ perftResult = Null
  /\ NoSearch
  /\ NoUnit

\* before search is called: a move is made
SearchPlay ==
  /\ searchFrames = <<>>
  /\ ~searchResult.returned
  /\ \E ft \in nextMoves(position) :
       position' = makeMove(position, moveFromTo(position, ft)).pos
  /\ UNCHANGED <<ret, undos, perftVars, searchVars, unitVars>>

\* before search is called: the knight move is taken back, which leaves
\* halfmoveClock one higher than before the move
SearchTakeBack ==
  /\ searchFrames = <<>>
  /\ ~searchResult.returned
  /\ canTakeBack(position)
  /\ position' = unmakeMove(position).pos
  /\ UNCHANGED <<ret, undos, perftVars, searchVars, unitVars>>

\* ai.search(chessPosition) is called
SearchCall ==
  /\ searchFrames = <<>>
  /\ ~searchResult.returned
  /\ SearchRoot(position)
  /\ searchFrames' = <<[SearchFrame("search", 4, position, -Infinity, Infinity)
                          EXCEPT !.moves = sortedMoves("search", position)]>>
  /\ evaluated' = NoNode
  /\ calledOn' = position
  /\ UNCHANGED <<position, ret, undos, perftVars, searchResult, unitVars>>

\* one iteration of the for loop of the innermost invocation.  When the
\* recursive call returns before reaching its own loop, the iteration is
\* completed with unmakeMove() and the rest of the body; otherwise the call
\* becomes the innermost invocation.
SearchLoop ==
  /\ searchFrames # <<>>
  /\ SearchTop.state = "loop"
  /\ SearchTop.i <= Len(SearchTop.moves)
  /\ \E r \in {makeMove(position, SearchTop.moves[SearchTop.i])} :
       IF ~r.ok
       THEN /\ position' = r.pos
            /\ searchFrames' = [searchFrames EXCEPT ![Len(searchFrames)].i = @ + 1]
            /\ evaluated' = NoNode
       ELSE \E c \in {recursiveCall(SearchTop, r.pos)} :
              IF c.done
              THEN /\ position' = unmakeMove(r.pos).pos
                   /\ searchFrames' = [searchFrames EXCEPT
                                         ![Len(searchFrames)] = loopBody(@, c.value)]
                   /\ evaluated' = [valid |-> TRUE, node |-> r.pos, value |-> c.value,
                                    kind |-> "quiescenceSearch", depth |-> 0]
              ELSE /\ position' = r.pos
                   /\ searchFrames' =
                        Append([searchFrames EXCEPT ![Len(searchFrames)].legal = TRUE],
                               [c.frame EXCEPT !.moves = sortedMoves(c.frame.kind, r.pos)])
                   /\ evaluated' = NoNode
  /\ UNCHANGED <<ret, undos, perftVars, searchResult, calledOn, unitVars>>

\* the loop of the innermost invocation is over: it returns, to the loop body
\* that called it (unmakeMove() and the rest of the body) or to the caller of
\* search
SearchReturn ==
  /\ searchFrames # <<>>
  /\ loopOver(SearchTop)
  /\ IF Len(searchFrames) = 1
     THEN /\ searchResult' = [returned |-> TRUE, bestMove |-> returnValue(SearchTop, position)]
          /\ searchFrames' = <<>>
          /\ evaluated' = NoNode
          /\ UNCHANGED position
     ELSE \E value \in {returnValue(SearchTop, position)} :
            /\ searchFrames' =
                 [SubSeq(searchFrames, 1, Len(searchFrames) - 1) EXCEPT
                    ![Len(searchFrames) - 1] = loopBody(@, value)]
            /\ evaluated' = [valid |-> TRUE,
                             node |-> [position EXCEPT !.halfmoveClock = SearchTop.clock],
                             value |-> value,
                             kind |-> SearchTop.kind, depth |-> SearchTop.depth]
            /\ position' = unmakeMove(position).pos
            /\ UNCHANGED searchResult
  /\ UNCHANGED <<ret, undos, perftVars, calledOn, unitVars>>

NextSearch == SearchPlay \/ SearchTakeBack \/ SearchCall \/ SearchLoop \/ SearchReturn

SpecSearch == InitSearch /\ [][NextSearch]_vars

\* NextSearch can take a step: the guards of its three actions
SearchEnabled ==
  \/ /\ searchFrames = <<>>
     /\ ~searchResult.returned
     /\ \/ SearchRoot(position)
        \/ nextMoves(position) # {}
        \/ canTakeBack(position)
  \/ /\ searchFrames # <<>>
     /\ \/ SearchTop.state = "loop" /\ SearchTop.i <= Len(SearchTop.moves)
        \/ loopOver(SearchTop)

\* search runs to completion once called: JavaScript runs the call without
\* interruption, so a step that can be taken is taken.  This is
\* WF_vars(NextSearch) with the enabling condition written out.
SpecSearchLive ==
  /\ InitSearch
  /\ [][NextSearch]_vars
  /\ ([]<>~SearchEnabled \/ []<><<NextSearch>>_vars)

\* ------------------------------------------------------------------ the claims
Range(seq) == { seq[i] : i \in 1 .. Len(seq) }

\* legalMoves(): the list getMoves() returns
legalMoves(p) == getMoves(p, FALSE, FALSE).moves

\* pseudoLegalMoves(): the list getMoves(true) returns
pseudoLegalMoves(p) == getMoves(p, TRUE, FALSE).moves

\* the fields of claim C1: everything but the two clock properties
SameButClock(p, q) ==
  /\ p.hashKey = q.hashKey
  /\ \A b \in 0 .. 7 : p.bitboards[b] = q.bitboards[b]
  /\ p.pieces = q.pieces
  /\ p.turn = q.turn
  /\ p.castlingRights = q.castlingRights
  /\ p.enPassantSquare = q.enPassantSquare
  /\ p.madeMoves = q.madeMoves
  /\ p.irreversibleHistory = q.irreversibleHistory
  /\ p.hashHistory = q.hashHistory

\* C1: in every reachable position, for every legal move m, makeMove(m)
\* followed by unmakeMove() returns m and restores the hash, the six piece
\* bitboards, the two color bitboards, the pieces table, the turn, the
\* castling rights, the en passant square and the three history stacks.
C1_MakeUnmakeRestores ==
  \A m \in Range(legalMoves(position)) :
     LET u == unmakeMove(makeMove(position, m).pos)
     IN u.move = m /\ SameButClock(u.pos, position)

\* C1 witness: a move was really taken back, in a position whose legal moves
\* include a capture.
C1_Witness ==
  /\ ret = "unmade"
  /\ \E m \in Range(legalMoves(position)) : isCapture(m)

\* C2 (as claimed): in every reachable position, for every legal move m,
\* makeMove(m) followed by unmakeMove() restores halfmoveClock.
C2_ClockRestored ==
  \A m \in Range(legalMoves(position)) :
     unmakeMove(makeMove(position, m).pos).pos.halfmoveClock = position.halfmoveClock

\* C2 witness: the first move, a knight move, was made and taken back; the
\* clock that was 0 before the move is 1, and the popped 0 is in halfMoveClock.
C2_Witness ==
  /\ ret = "unmade"
  /\ position.madeMoves = <<>>
  /\ position.halfmoveClock = 1
  /\ position.halfMoveClock = 0

\* C3: a pseudo-legal move that leaves the mover's king attacked is rejected
\* by makeMove (it returns false) and the position is left as it was, in
\* every field.
C3_RejectedUnchanged ==
  \A m \in Range(pseudoLegalMoves(position)) :
     isKingInCheck(updatePieces(position, m)) =>
        LET r == makeMove(position, m)
        IN ~r.ok /\ r.pos = position

\* C3 witness: makeMove has just returned false for a capture.
C3_Witness ==
  /\ ret = "rejected"
  /\ \E m \in Range(pseudoLegalMoves(position)) :
        isCapture(m) /\ ~makeMove(position, m).ok

\* C4: every move of legalMoves() is a move of pseudoLegalMoves(), and after
\* makeMove of a legal move the king of the side that moved is not attacked
\* by the opponent.
C4_LegalSubsetAndSafe ==
  LET r == getMoves(position, FALSE, FALSE)
  IN \A m \in Range(r.moves) :
       /\ m \in Range(pseudoLegalMoves(position))
       /\ LET q == makeMove(r.pos, m).pos
          IN ~isAttacked(q, getOtherPieceColor(position.turn),
                         getKingPosition(q, position.turn))

\* C4 witness: a move was accepted that gives check, and the position has
\* both legal moves and pseudo-legal moves that are not legal.
C4_Witness ==
  /\ ret = "accepted"
  /\ isKingInCheck(position)
  /\ legalMoves(position) # <<>>
  /\ Range(pseudoLegalMoves(position)) # Range(legalMoves(position))

\* C5: the hash key maintained by makeMove and unmakeMove equals the hash key
\* computed from scratch from the turn, the pieces, the castling rights and
\* the en passant square.
C5_HashConsistent == position.hashKey = updateHashKey(position)

\* C5 witness: a take-back has just put an en passant square back, after
\* moves of which makeMove rejected some and accepted others.
C5_Witness ==
  /\ ret = "unmade"
  /\ position.enPassantSquare # Null
  /\ Len(position.madeMoves) >= 4

\* C6: the six piece bitboards are pairwise disjoint, the two color bitboards
\* are disjoint, and the piece bitboards and the color bitboards have the same
\* union.
C6_Partition ==
  /\ \A a, b \in PAWN .. KING :
        a # b => position.bitboards[a] \cap position.bitboards[b] = {}
  /\ position.bitboards[ANY_WHITE] \cap position.bitboards[ANY_BLACK] = {}
  /\ UNION { position.bitboards[a] : a \in PAWN .. KING }
       = position.bitboards[ANY_WHITE] \cup position.bitboards[ANY_BLACK]

\* C6 witness: a capture and a promotion have been made.
C6_Witness ==
  /\ popcnt(getOccupiedBitboard(position)) < 32
  /\ \E i \in 1 .. Len(position.madeMoves) : isPromotion(position.madeMoves[i])

\* C7: perft called on the initial position returns 8902 for depth 3 and
\* 197281 for depth 4.
C7_PerftCounts ==
  perftResult # Null =>
     /\ perftDepth = 3 => perftResult = 8902
     /\ perftDepth = 4 => perftResult = 197281

\* C7 witness: perft(3) has returned 8902, and with the position it started
\* from.  (The run of perft(4) ends the same way, with 197281, after 216389 states.)
C7_Witness ==
  /\ perftDepth = 3
  /\ perftResult = 8902
  /\ SameButClock(position, NewPosition)

\* what claim C8 requires of a castle of the side to move
CastleConditions(p, kingSide) ==
  LET color == p.turn
      king == IF color = WHITE THEN 4 ELSE 60
      rook == IF kingSide THEN king + 3 ELSE king - 4
      direction == IF kingSide THEN 1 ELSE -1
  IN /\ rightsBit(p.castlingRights, color + (IF kingSide THEN 0 ELSE 2)) = 1
     /\ \A sq \in Board :
          (king < sq /\ sq < rook) \/ (rook < sq /\ sq < king) => p.pieces[sq] = Null
     /\ \A sq \in {king, king + direction, king + 2 * direction} :
          ~isAttacked(p, getOtherPieceColor(color), sq)

\* the castle move of that side is in the generated list
CastleOffered(p, kingSide) ==
  \E m \in Range(generateMoves(p, FALSE)) :
     getKind(m) = (IF kingSide THEN KING_CASTLE ELSE QUEEN_CASTLE)

\* C8: move generation offers the king side (queen side) castle of the side to
\* move if and only if its castling right is set, all squares between the king
\* and that rook are empty, and the king's start, transit and destination
\* squares are not attacked by the opponent.
C8_CastleGating ==
  \A kingSide \in BOOLEAN :
     CastleOffered(position, kingSide) <=> CastleConditions(position, kingSide)

\* C8 witness: one castle is offered while the other is not although its right
\* is still set.
C8_Witness ==
  \E kingSide \in BOOLEAN :
     /\ CastleOffered(position, kingSide)
     /\ ~CastleOffered(position, ~kingSide)
     /\ hasCastlingRight(position, position.turn, ~kingSide)

\* C9: getStatus() returns CHECKMATE exactly when there is no legal move and
\* the king of the side to move is attacked, and STALEMATE_DRAW exactly when
\* there is no legal move and that king is not attacked.
C9_StatusMates ==
  LET status == getStatus(position).status
      none == legalMoves(position) = <<>>
      attacked == isAttacked(position, getOtherPieceColor(position.turn),
                             getKingPosition(position, position.turn))
  IN /\ status = CHECKMATE <=> (none /\ attacked)
     /\ status = STALEMATE_DRAW <=> (none /\ ~attacked)

\* C9 witness: an accepted move has mated the side to move.
C9_Witness ==
  /\ ret = "accepted"
  /\ getStatus(position).status = CHECKMATE

\* C10: the fifty-move condition is false when halfmoveClock is 99 and true
\* when it is 100 or more.
C10_FiftyMoveBoundary ==
  /\ position.halfmoveClock = 99 =>
        /\ ~isFiftyMoveRuleDraw(position)
        /\ getStatus(position).status # FIFTY_MOVE_RULE_DRAW
  /\ position.halfmoveClock >= 100 =>
        /\ isFiftyMoveRuleDraw(position)
        /\ getStatus(position).status = FIFTY_MOVE_RULE_DRAW

\* C10 witness: the move that took the clock from 99 to 100 was accepted.
C10_Witness ==
  /\ ret = "accepted"
  /\ position.halfmoveClock = 100
  /\ isFiftyMoveRuleDraw(position)

\* the number of times the current position has occurred in the game, the
\* current occurrence included: hashHistory holds the hash of the position
\* before each move still on the history
occurrences(p) ==
  1 + Cardinality({ i \in 1 .. Len(p.hashHistory) : p.hashHistory[i] = p.hashKey })

\* C11 (as claimed): the threefold-repetition draw holds as soon as the
\* current position, compared by hash, has occurred three times counting the
\* current occurrence, and does not hold when it has occurred only twice.
C11_ThreefoldAtThird ==
  /\ occurrences(position) >= 3 => isThreefoldRepetitionRuleDraw(position)
  /\ occurrences(position) = 2 => ~isThreefoldRepetitionRuleDraw(position)

\* C11 witness: after Nf3 Nf6 Ng1 Ng8 Nf3 Nf6 Ng1 Ng8 the initial placement
\* stands for the third time and the draw is not reported.
C11_Witness ==
  /\ ret = "accepted"
  /\ Len(position.madeMoves) = 8
  /\ occurrences(position) = 3
  /\ ~isThreefoldRepetitionRuleDraw(position)

\* the number of plies on the move history since the last capture or pawn
\* move, the whole length of the history when there is none
pliesSinceCaptureOrPawn(p) ==
  LET n == Len(p.madeMoves)
      zeroing == { i \in 1 .. n : \/ isCapture(p.madeMoves[i])
                                   \/ getPiece(p.madeMoves[i]) = PAWN }
  IN n - (IF zeroing = {} THEN 0
          ELSE CHOOSE i \in zeroing : \A j \in zeroing : j <= i)

\* C13 (as claimed): in every state reachable by makeMove and unmakeMove the
\* halfmove clock is the number of plies on the move history since the last
\* capture or pawn move, so the fifty-move draw holds only when at least 100
\* such plies are on the history.
C13_ClockCountsHistory ==
  /\ position.halfmoveClock = pliesSinceCaptureOrPawn(position)
  /\ isFiftyMoveRuleDraw(position) => pliesSinceCaptureOrPawn(position) >= 100

\* C13 witness: a knight move was made and taken back twice; the history is
\* empty and the clock stands at 2.
C13_Witness ==
  /\ ret = "unmade"
  /\ undos = 2
  /\ Len(position.madeMoves) = 0
  /\ pliesSinceCaptureOrPawn(position) = 0
  /\ position.halfmoveClock = 2

\* C14: the en-passant square is set exactly when the move on top of the
\* move history is a double pawn push, and is then that move's destination;
\* it is none initially and after any other accepted move.
C14_EnPassantFollowsTop ==
  position.enPassantSquare =
    IF canUndo(position) /\ getKind(getLastMove(position)) = DOUBLE_PAWN_PUSH
    THEN getTo(getLastMove(position))
    ELSE -1

\* C14 witness: a move made after a double pawn push was taken back; the
\* double pawn push is on top again and its destination is the square.
C14_Witness ==
  /\ ret = "unmade"
  /\ canUndo(position)
  /\ getKind(getLastMove(position)) = DOUBLE_PAWN_PUSH
  /\ position.enPassantSquare = getTo(getLastMove(position))

\* C15: with an empty move history unmakeMove() returns none and leaves every
\* field of the position as it was.
C15_UnmakeOnEmpty ==
  ~canUndo(position) => unmakeMove(position) = [move |-> Null, pos |-> position]

\* C15 witness: unmakeMove() was called on an empty history, after an earlier
\* take-back had emptied it.
C15_Witness ==
  /\ ret = "nothing"
  /\ undos = 2
  /\ ~canUndo(position)
  /\ unmakeMove(position).move = Null

\* ------------------------------------------- isInsufficientMaterialDraw alone
\* The function reads the bitboards only.  It is applied to positions late in
\* a game: the two kings on e1 and e8 and a few of the pieces below; the
\* castling rights are gone, the histories are not read and are left empty.
MaxExtraPieces == 3

\* piece, color, square
MaterialMenu ==
  << <<KNIGHT, WHITE, S(2,1)>>, <<KNIGHT, WHITE, S(7,1)>>, <<KNIGHT, BLACK, S(2,8)>>,
     <<BISHOP, WHITE, S(3,1)>>, <<BISHOP, WHITE, S(6,1)>>,
     <<BISHOP, BLACK, S(3,8)>>, <<BISHOP, BLACK, S(6,8)>>,
     <<PAWN, WHITE, S(5,2)>>, <<ROOK, BLACK, S(1,8)>>, <<QUEEN, WHITE, S(4,1)>> >>

MaterialChoices ==
  { c \in SUBSET (1 .. Len(MaterialMenu)) : Cardinality(c) <= MaxExtraPieces }

MaterialBitboards(c) ==
  [b \in 0 .. 7 |->
     CASE b = KING -> makeIndex(S(5,1)) \cup makeIndex(S(5,8))
       [] b = ANY_WHITE ->
            makeIndex(S(5,1)) \cup { MaterialMenu[i][3] : i \in { j \in c : MaterialMenu[j][2] = WHITE } }
       [] b = ANY_BLACK ->
            makeIndex(S(5,8)) \cup { MaterialMenu[i][3] : i \in { j \in c : MaterialMenu[j][2] = BLACK } }
       [] OTHER -> { MaterialMenu[i][3] : i \in { j \in c : MaterialMenu[j][1] = b } }]

MaterialPosition(c) ==
  LET p == [NewPosition EXCEPT !.bitboards = MaterialBitboards(c),
                               !.pieces = fillPiecesFromBitboards(MaterialBitboards(c)),
                               !.castlingRights = 0]
  IN [p EXCEPT !.hashKey = updateHashKey(p)]

InitMaterial ==
  /\ position \in { MaterialPosition(c) : c \in MaterialChoices }
  /\ ret = "constructed"
  /\ undos = 0
  /\ perftDepth = 0
  /\ perftFrames = <<>>
  /\ perftResult = Null
  /\ NoSearch
  /\ NoUnit

\* position.isInsufficientMaterialDraw()
InsufficientMaterial ==
  /\ ret = "constructed"
  /\ ret' = IF isInsufficientMaterialDraw(position) THEN "insufficient" ELSE "sufficient"
  /\ UNCHANGED <<position, undos, perftVars, searchVars, unitVars>>

NextMaterial == InsufficientMaterial

SpecMaterial == InitMaterial /\ [][NextMaterial]_vars

\* the squares of the board array that hold one of the given pieces
squaresOf(p, kinds) == { i \in Board : p.pieces[i] \in kinds }

noHeavyOrPawn(p) == squaresOf(p, {PAWN, ROOK, QUEEN}) = {}

bishopsOnOneColor(p) ==
  \/ squaresOf(p, {BISHOP}) \subseteq LIGHT_SQUARES
  \/ squaresOf(p, {BISHOP}) \subseteq DARK_SQUARES

\* C12 (amended): the insufficient-material condition holds exactly when no
\* pawns, rooks or queens remain and either fewer than 4 pieces remain in
\* total, or no knight remains and all remaining bishops stand on squares of
\* one color.
C12_InsufficientMaterial ==
  ret # "constructed" =>
    ((ret = "insufficient") <=>
       /\ noHeavyOrPawn(position)
       /\ \/ Cardinality(squaresOf(position, PAWN .. KING)) < 4
          \/ /\ squaresOf(position, {KNIGHT}) = {}
             /\ bishopsOnOneColor(position))

\* C12 (as claimed): ... or all remaining bishops stand on squares of a
\* single color, whatever knights remain.
C12_AsClaimed ==
  ret # "constructed" =>
    ((ret = "insufficient") <=>
       /\ noHeavyOrPawn(position)
       /\ \/ Cardinality(squaresOf(position, PAWN .. KING)) < 4
          \/ bishopsOnOneColor(position))

\* C12 witness: kings, a knight and two bishops on squares of one color; the
\* function was applied and answered that the material is sufficient.
C12_Witness ==
  /\ ret = "sufficient"
  /\ noHeavyOrPawn(position)
  /\ Cardinality(squaresOf(position, {KNIGHT})) = 1
  /\ Cardinality(squaresOf(position, {BISHOP})) = 2
  /\ bishopsOnOneColor(position)

\* C16: search returns none if and only if the position has no legal move;
\* otherwise the move returned is one of the legal moves; on the new position
\* it returns a legal move.
C16_BestMoveLegal ==
  searchResult.returned =>
    /\ (searchResult.bestMove = Null) <=> (legalMoves(calledOn) = <<>>)
    /\ searchResult.bestMove # Null =>
         searchResult.bestMove \in Range(legalMoves(calledOn))

\* C16 witness: search was called on the new position and has returned a move.
C16_Witness ==
  /\ searchResult.returned
  /\ calledOn = NewPosition
  /\ searchResult.bestMove \in Range(legalMoves(NewPosition))

\* C17 (as claimed): when search returns, every field of the position equals
\* its value at the call.
C17_PositionUnchanged ==
  searchResult.returned => position = calledOn

\* C17 witness: search was called on the new position and has returned; the
\* pieces, the turn, the rights, the hash and the stacks are as they were and
\* the halfmove clock is not.
C17_Witness ==
  /\ searchResult.returned
  /\ calledOn = NewPosition
  /\ SameButClock(position, calledOn)
  /\ position.halfmoveClock # calledOn.halfmoveClock

\* some move of the pseudo-legal list is accepted by makeMove
hasLegalMove(p) == \E m \in Range(pseudoLegalMoves(p)) : makeMove(p, m).ok

\* C18 (as claimed): a node the search has evaluated in which the side to move
\* has no legal move evaluates to -20000 (white to move) or 20000 (black to
\* move) when the king is in check, and to 0 when it is not.
C18_MateAndStalemateValues ==
  evaluated.valid /\ ~hasLegalMove(evaluated.node) =>
    evaluated.value =
      IF isKingInCheck(evaluated.node)
      THEN (IF getTurnColor(evaluated.node) = WHITE
            THEN -PIECE_VALUES[KING + 1] ELSE PIECE_VALUES[KING + 1])
      ELSE 0

\* C19 (as claimed): a node the search has evaluated whose position satisfies
\* a draw condition evaluates to 0.
C19_DrawValues ==
  evaluated.valid /\ isDraw(evaluated.node) => evaluated.value = 0

\* C18 witness: in the search called after 1.e4 d5 2.Bb5+ the node after
\* 2...Qd7 3.Qg4 Qxb5 4.Qxc8 mate is evaluated by quiescenceSearch: black is to
\* move, in check, without a legal move, and the value is not 20000.
C18_Witness ==
  /\ evaluated.valid
  /\ evaluated.kind = "quiescenceSearch"
  /\ calledOn = positionAfter(LineCheck, 3)
  /\ getTurnColor(evaluated.node) = BLACK
  /\ isKingInCheck(evaluated.node)
  /\ ~hasLegalMove(evaluated.node)
  /\ evaluated.value # PIECE_VALUES[KING + 1]

\* C19 witness: search was called with halfmoveClock = 97; three quiet plies
\* below, alphaBeta is entered with depth 1 and halfmoveClock = 100, and it
\* returns a value that is not 0.
C19_Witness ==
  /\ evaluated.valid
  /\ evaluated.kind = "alphaBeta"
  /\ evaluated.depth = 1
  /\ hasLegalMove(evaluated.node)
  /\ isFiftyMoveRuleDraw(evaluated.node)
  /\ evaluated.value # 0

\* C20: search terminates on the positions it is called on: the recursion 3
\* plies below the root, followed by the quiescence recursion, comes to an
\* end and search returns.
C20_SearchTerminates == <>(searchResult.returned)

\* C20 witness: search was called after 1.e4 d5 2.Bb5+, with black in check;
\* it has returned and no invocation is left.
C20_Witness ==
  /\ searchResult.returned
  /\ searchFrames = <<>>
  /\ calledOn = positionAfter(LineCheck, 3)

\* the kings of a color on the board
kings(p, color) == p.bitboards[KING] \cap p.bitboards[ANY_WHITE + color]

\* C28: in every state reached by makeMove and unmakeMove on moves of the
\* pseudo-legal move list, each color has exactly one king on the board.
C28_OneKingEach ==
  \A color \in {WHITE, BLACK} : Cardinality(kings(position, color)) = 1

\* C28 witness: the white king has castled to g1 and black's last move was
\* taken back.
C28_Witness ==
  /\ ret = "unmade"
  /\ position.pieces[S(7,1)] = KING
  /\ kings(position, WHITE) = {S(7,1)}

\* the pieces table and the piece bitboards say the same
piecesAgree(p) ==
  \A index \in Board :
     /\ \A piece \in PAWN .. KING :
          p.pieces[index] = piece <=> isSet(p.bitboards[piece], index)
     /\ p.pieces[index] = Null <=>
          \A piece \in PAWN .. KING : ~isSet(p.bitboards[piece], index)

\* C29: after every accepted or rejected makeMove, every unmakeMove and every
\* legalMoves() call, pieces[s] is piece p exactly when bit s is set in the
\* bitboard of p, and is null exactly when s is in no piece bitboard.
C29_PiecesAgree ==
  /\ piecesAgree(position)
  /\ piecesAgree(getMoves(position, FALSE, FALSE).pos)

\* C29 witness: the capture that promotes the pawn on g8 was accepted.
C29_Witness ==
  /\ ret = "accepted"
  /\ position.madeMoves # <<>>
  /\ isPromotion(position.madeMoves[Len(position.madeMoves)])
  /\ isCapture(position.madeMoves[Len(position.madeMoves)])

\* the home square of the rook of a color and a side: h1, a1, h8, a8
rookHome(color, kingSide) == (IF kingSide THEN 7 ELSE 0) + 56 * color

\* the castling right bits the claim has move clear, made by mover
bitsToClear(move, mover) ==
  { getCastlingIndex(mover, kingSide) : kingSide \in
      { k \in BOOLEAN : \/ getPiece(move) = KING
                        \/ getPiece(move) = ROOK /\ getFrom(move) = rookHome(mover, k) } }
  \cup
  { getCastlingIndex(getOtherPieceColor(mover), kingSide) : kingSide \in
      { k \in BOOLEAN : /\ isCapture(move)
                        /\ getCapturedPiece(move) = ROOK
                        /\ getTo(move) = rookHome(getOtherPieceColor(mover), k) } }

\* C30: an accepted makeMove clears both castling right bits of the mover
\* when the king moves, the mover's bit of a side when a rook moves from that
\* side's home square, the opponent's bit of a side when a rook is captured
\* on that side's home square, and changes no other bit.
C30_CastlingRightsCleared ==
  [][ ret' = "accepted" /\ Len(position'.madeMoves) = Len(position.madeMoves) + 1 =>
        \A i \in 0 .. 3 :
           rightsBit(position'.castlingRights, i) =
             IF i \in bitsToClear(position'.madeMoves[Len(position'.madeMoves)],
                                  position.turn)
             THEN 0 ELSE rightsBit(position.castlingRights, i) ]_vars

\* C30 witness: the bishop has taken the rook on h8, and of the four rights
\* only black's king side right is gone.
C30_Witness ==
  /\ ret = "accepted"
  /\ position.madeMoves # <<>>
  /\ getCapturedPiece(position.madeMoves[Len(position.madeMoves)]) = ROOK
  /\ getTo(position.madeMoves[Len(position.madeMoves)]) = S(8,8)
  /\ position.castlingRights = 13

\* ------------------------------------------------------ Chess.Move, unit
\* Chess.Move.Kind: the fourteen defined kinds
Kinds ==
  { POSITIONAL, DOUBLE_PAWN_PUSH, KING_CASTLE, QUEEN_CASTLE, CAPTURE,
    EN_PASSANT_CAPTURE, KNIGHT_PROMOTION, BISHOP_PROMOTION, ROOK_PROMOTION,
    QUEEN_PROMOTION, KNIGHT_PROMOTION_CAPTURE, BISHOP_PROMOTION_CAPTURE,
    ROOK_PROMOTION_CAPTURE, QUEEN_PROMOTION_CAPTURE }

\* Chess.Piece
Pieces == PAWN .. KING

\* "abcdefgh", one character per file
FILE_CHARACTERS == <<"a", "b", "c", "d", "e", "f", "g", "h">>

\* "12345678", one character per rank
RANK_CHARACTERS == <<"1", "2", "3", "4", "5", "6", "7", "8">>

\* " NBRQK": the pawn's entry is a space character
PIECE_ALGEBRAIC_NAMES == <<" ", "N", "B", "R", "Q", "K">>

\* String.prototype.charAt on a string kept as a tuple of characters
charAt(str, i) == IF i + 1 \in DOMAIN str THEN str[i + 1] ELSE ""

getAlgebraic(rank, file) == FILE_CHARACTERS[file + 1] \o RANK_CHARACTERS[rank + 1]

getAlgebraicFromIndex(index) == getAlgebraic(getRank(index), getFile(index))

\* Chess.Move.prototype.getString
getString(move) ==
  IF ~isCastle(move)
  THEN charAt(PIECE_ALGEBRAIC_NAMES, getPiece(move))
         \o getAlgebraicFromIndex(getFrom(move))
         \o (IF isCapture(move) THEN "x" ELSE "-")
         \o getAlgebraicFromIndex(getTo(move))
         \o (IF getKind(move) = EN_PASSANT_CAPTURE THEN "e.p." ELSE "")
         \o (IF isPromotion(move)
             THEN charAt(PIECE_ALGEBRAIC_NAMES, getPromotedPiece(move)) ELSE "")
  ELSE "0-0" \o (IF getKind(move) = QUEEN_CASTLE THEN "-0" ELSE "")

InitMove ==
  /\ position = NewPosition
  /\ ret = "constructed"
  /\ undos = 0
  /\ perftDepth = 0
  /\ perftFrames = <<>>
  /\ perftResult = Null
  /\ NoSearch
  /\ NoUnit

\* new Chess.Move(from, to, kind, piece, capturedPiece); null when the
\* fifth argument is left out
MoveNew ==
  /\ call.fn = ""
  /\ \E from \in 0..63, to \in 0..63, kind \in Kinds, piece \in Pieces,
     capturedPiece \in Pieces \cup {Null} :
    /\ call' = [fn |-> "Move",
                args |-> <<from, to, kind, piece, capturedPiece>>,
                ret |-> Move(from, to, kind, piece, capturedPiece), n |-> 1]
    /\ UNCHANGED <<position, ret, undos, perftDepth, perftFrames, perftResult,
                   searchFrames, searchResult, evaluated, calledOn,
                   parser, bitboard, zobrist, randomValues>>

\* move.getString() on a move of any kind
MoveGetString ==
  /\ call.fn = ""
  /\ \E from \in 0..63, to \in 0..63, kind \in Kinds, piece \in Pieces :
    /\ call' = [fn |-> "getString",
                args |-> <<from, to, kind, piece>>,
                ret |-> getString(Move(from, to, kind, piece, Null)), n |-> 1]
    /\ UNCHANGED <<position, ret, undos, perftDepth, perftFrames, perftResult,
                   searchFrames, searchResult, evaluated, calledOn,
                   parser, bitboard, zobrist, randomValues>>

\* the caller is done with the value and the next call can start
CallReturn ==
  /\ call.fn # ""
  /\ call' = NoCall
  /\ UNCHANGED <<position, ret, undos, perftDepth, perftFrames, perftResult,
                 searchFrames, searchResult, evaluated, calledOn,
                 parser, bitboard, zobrist, randomValues>>

NextMove == MoveNew \/ MoveGetString \/ CallReturn

SpecMove == InitMove /\ [][NextMove]_vars

\* the piece chosen by the low two bits of a promotion kind
promotionOf(kind) ==
  CASE kind % 4 = 0 -> KNIGHT
    [] kind % 4 = 1 -> BISHOP
    [] kind % 4 = 2 -> ROOK
    [] OTHER -> QUEEN

\* C23: a Move built from any from and to in 0..63, any defined kind, any
\* moving piece and any captured piece reads back the same from, to, kind,
\* piece and captured piece (a missing captured piece reads back as pawn);
\* isCapture is true exactly when bit 2 of the kind is set, isPromotion
\* exactly when bit 3 is set, and getPromotedPiece is knight, bishop, rook or
\* queen by the low two bits of the kind for a promotion and pawn otherwise.
C23_MoveReadsBack ==
  call.fn = "Move" =>
    LET from == call.args[1]
        to == call.args[2]
        kind == call.args[3]
        piece == call.args[4]
        capturedPiece == call.args[5]
        move == call.ret
    IN /\ getFrom(move) = from
       /\ getTo(move) = to
       /\ getKind(move) = kind
       /\ getPiece(move) = piece
       /\ getCapturedPiece(move) = (IF capturedPiece = Null THEN PAWN ELSE capturedPiece)
       /\ isCapture(move) <=> kind \in {4, 5, 6, 7, 12, 13, 14, 15}
       /\ isPromotion(move) <=> kind \in 8..15
       /\ getPromotedPiece(move) = (IF kind \in 8..15 THEN promotionOf(kind) ELSE PAWN)

\* a queen promotion with capture of a rook from g7 to h8, read back
C23_Witness ==
  /\ call.fn = "Move"
  /\ call.args = <<54, 63, QUEEN_PROMOTION_CAPTURE, PAWN, ROOK>>
  /\ getFrom(call.ret) = 54 /\ getTo(call.ret) = 63
  /\ getKind(call.ret) = 15 /\ getCapturedPiece(call.ret) = ROOK
  /\ getPromotedPiece(call.ret) = QUEEN

\* the text the notation rule gives: no letter for a pawn
longAlgebraic(from, to, kind, piece) ==
  IF kind = KING_CASTLE THEN "0-0"
  ELSE IF kind = QUEEN_CASTLE THEN "0-0-0"
  ELSE (IF piece = PAWN THEN "" ELSE PIECE_ALGEBRAIC_NAMES[piece + 1])
         \o FILE_CHARACTERS[(from % 8) + 1] \o RANK_CHARACTERS[(from \div 8) + 1]
         \o (IF kind \in {4, 5, 12, 13, 14, 15} THEN "x" ELSE "-")
         \o FILE_CHARACTERS[(to % 8) + 1] \o RANK_CHARACTERS[(to \div 8) + 1]
         \o (IF kind = EN_PASSANT_CAPTURE THEN "e.p." ELSE "")
         \o (IF kind \in 8..15 THEN PIECE_ALGEBRAIC_NAMES[promotionOf(kind) + 1] ELSE "")

\* C22: a non-castle move renders as piece letter (nothing at all for a
\* pawn), from-square, 'x' for a capture and '-' otherwise, to-square, "e.p."
\* for en passant and the promoted piece's letter for a promotion, so the
\* pawn push from e2 to e4 renders as exactly "e2-e4"; the castles render as
\* "0-0" and "0-0-0".
C22_LongAlgebraic ==
  call.fn = "getString" =>
    call.ret = longAlgebraic(call.args[1], call.args[2], call.args[3], call.args[4])

\* the pawn push e2-e4 rendered with a leading space
C22_Witness ==
  /\ call.fn = "getString"
  /\ call.args = <<12, 28, DOUBLE_PAWN_PUSH, PAWN>>
  /\ call.ret = " e2-e4"
  /\ call.ret # "e2-e4"

\* every move of a piece other than a pawn, and both castles, render as the
\* notation rule says
C22_PiecesAndCastles ==
  call.fn = "getString" /\ (call.args[4] # PAWN \/ call.args[3] \in {KING_CASTLE, QUEEN_CASTLE}) =>
    call.ret = longAlgebraic(call.args[1], call.args[2], call.args[3], call.args[4])

\* --------------------------------------------- Chess.Zobrist, 64-bit values
\* A 32-bit word is the set of its one bits, bit 0 the lowest; low ^ value is
\* the symmetric difference and >>> 0 keeps the bits.
Word == SUBSET (0 .. 31)

\* how often the caller repeats the update it has just made
MaxRepeats == 1

\* Chess.Zobrist.RANDOM_VALUES has one entry per table position
RandomValuesCount == Position_EN_PASSANT_FILE + Count_EN_PASSANT_FILE

\* createRandomValues: (1 + Math.random() * 0xFFFFFFFF) >>> 0 is any value
\* of 1 .. 0xFFFFFFFF, never 0.  Three tables stand for the draw: entries
\* that differ from position to position (the eleven bits of position + 1,
\* repeated up to bit 31), every entry 1, and every entry 0xFFFFFFFF.
RandomTables ==
  { [i \in 0 .. RandomValuesCount - 1 |->
       { b \in 0 .. 31 : ((i + 1) \div (2 ^ (b % 11))) % 2 = 1 }],
    [i \in 0 .. RandomValuesCount - 1 |-> {0}],
    [i \in 0 .. RandomValuesCount - 1 |-> 0 .. 31] }

\* update with | in place of ^
Zobrist_update_Or(z, rv, pos) ==
  [low |-> z.low \cup rv[pos], high |-> z.high \cup rv[pos + 1]]

\* Chess.Zobrist.prototype.update on the two words
Zobrist_update(z, rv, pos) ==
  [low |-> xor(z.low, rv[pos]), high |-> xor(z.high, rv[pos + 1])]

Zobrist_updateTurn(z, rv) == Zobrist_update(z, rv, Position_TURN)

Zobrist_updatePieceColorSquare(z, rv, piece, color, index) ==
  Zobrist_update(z, rv, Position_PIECE_COLOR_SQUARE + piece + color * 6 + index * 6 * 2)

Zobrist_updateCastlingRights(z, rv, castlingRights) ==
  Zobrist_update(z, rv, Position_CASTLING_RIGHTS + castlingRights)

Zobrist_updateEnPassantFile(z, rv, enPassantFile) ==
  Zobrist_update(z, rv, Position_EN_PASSANT_FILE + enPassantFile)

Zobrist_updateEnPassantSquare(z, rv, enPassantSquare) ==
  IF enPassantSquare >= 0
  THEN Zobrist_updateEnPassantFile(z, rv, getFile(enPassantSquare))
  ELSE z

\* new Chess.Zobrist(low, high) for three pairs of words
ZobristSeeds ==
  { Zero64, [low |-> {0, 31}, high |-> {5}], [low |-> 0 .. 31, high |-> 0 .. 31] }

\* the table is drawn once and the hash is constructed
InitZobrist ==
  /\ position = NewPosition
  /\ ret = "constructed"
  /\ undos = 0
  /\ perftDepth = 0
  /\ perftFrames = <<>>
  /\ perftResult = Null
  /\ NoSearch
  /\ parser = NoParser
  /\ bitboard = Zero64
  /\ zobrist \in ZobristSeeds
  /\ randomValues \in RandomTables
  /\ call = NoCall

\* one update call: the hash before it is kept in call.ret
ZobristCall(fn, args, after) ==
  /\ zobrist' = after
  /\ call' = [fn |-> fn, args |-> args, ret |-> zobrist, n |-> call.n + 1]
  /\ UNCHANGED <<position, ret, undos, perftDepth, perftFrames, perftResult,
                 searchFrames, searchResult, evaluated, calledOn,
                 parser, bitboard, randomValues>>

ZobristUpdateTurn ==
  /\ call.n = 0
  /\ ZobristCall("updateTurn", <<>>, Zobrist_updateTurn(zobrist, randomValues))

ZobristUpdatePieceColorSquare ==
  /\ call.n = 0
  /\ \E piece \in Pieces, color \in {WHITE, BLACK}, index \in 0 .. 63 :
       ZobristCall("updatePieceColorSquare", <<piece, color, index>>,
                   Zobrist_updatePieceColorSquare(zobrist, randomValues, piece, color, index))

ZobristUpdateCastlingRights ==
  /\ call.n = 0
  /\ \E castlingRights \in 0 .. 15 :
       ZobristCall("updateCastlingRights", <<castlingRights>>,
                   Zobrist_updateCastlingRights(zobrist, randomValues, castlingRights))

ZobristUpdateEnPassantFile ==
  /\ call.n = 0
  /\ \E enPassantFile \in 0 .. 7 :
       ZobristCall("updateEnPassantFile", <<enPassantFile>>,
                   Zobrist_updateEnPassantFile(zobrist, randomValues, enPassantFile))

\* -1 is the position's value for "no en passant square"
ZobristUpdateEnPassantSquare ==
  /\ call.n = 0
  /\ \E enPassantSquare \in -1 .. 63 :
       ZobristCall("updateEnPassantSquare", <<enPassantSquare>>,
                   Zobrist_updateEnPassantSquare(zobrist, randomValues, enPassantSquare))

\* the caller makes the update it has just made once more, as unmakeMove
\* does to take a feature out of the hash again
ZobristRepeat ==
  /\ call.n >= 1 /\ call.n <= MaxRepeats
  /\ ZobristCall(call.fn, call.args,
       CASE call.fn = "updateTurn" -> Zobrist_updateTurn(zobrist, randomValues)
         [] call.fn = "updatePieceColorSquare" ->
              Zobrist_updatePieceColorSquare(zobrist, randomValues,
                                             call.args[1], call.args[2], call.args[3])
         [] call.fn = "updateCastlingRights" ->
              Zobrist_updateCastlingRights(zobrist, randomValues, call.args[1])
         [] call.fn = "updateEnPassantFile" ->
              Zobrist_updateEnPassantFile(zobrist, randomValues, call.args[1])
         [] call.fn = "updateEnPassantSquare" ->
              Zobrist_updateEnPassantSquare(zobrist, randomValues, call.args[1]))

NextZobrist ==
  \/ ZobristRepeat
  \/ ZobristUpdateTurn
  \/ ZobristUpdatePieceColorSquare
  \/ ZobristUpdateCastlingRights
  \/ ZobristUpdateEnPassantFile
  \/ ZobristUpdateEnPassantSquare

SpecZobrist == InitZobrist /\ [][NextZobrist]_vars

\* C24: for the turn, every piece, color and square, every castling-rights
\* value 0..15 and every en-passant file, a single update changes the hash
\* and the same update made twice in a row returns the hash to the value it
\* had before the first; updateEnPassantSquare with no en-passant square
\* leaves the hash unchanged.
C24_UpdateTwiceIsIdentity ==
  [][ call'.n = call.n + 1 =>
        /\ (call'.fn = "updateEnPassantSquare" /\ call'.args[1] < 0) => zobrist' = zobrist
        /\ ~(call'.fn = "updateEnPassantSquare" /\ call'.args[1] < 0) => zobrist' # zobrist
        /\ (call.fn = call'.fn /\ call.args = call'.args) => zobrist' = call.ret ]_vars

\* the black queen on h8 hashed in and out again on the table of distinct
\* entries: the hash was not zero in between and is zero again
C24_Witness ==
  /\ call.n = 2
  /\ call.fn = "updatePieceColorSquare"
  /\ call.args = <<QUEEN, BLACK, 63>>
  /\ randomValues[0] = {0, 11, 22} /\ randomValues[1] = {1, 12, 23}
  /\ call.ret = Zobrist_updatePieceColorSquare(Zero64, randomValues, QUEEN, BLACK, 63)
  /\ call.ret # Zero64
  /\ zobrist = Zero64

\* updateEnPassantSquare(-1) made on a hash that is not zero and left as it was
C24_WitnessNoEnPassant ==
  /\ call.n = 1
  /\ call.fn = "updateEnPassantSquare"
  /\ call.args = <<-1>>
  /\ zobrist = call.ret
  /\ zobrist # Zero64

\* ------------------------------------- Chess.Bitboard on two 32-bit words
\* The words are sets of one bits (Word).  Sums and differences are taken
\* on 16-bit halves, so that no intermediate value leaves the integers.
low16(w) ==
  LET bit(b) == IF b \in w THEN 2 ^ b ELSE 0
  IN bit(0) + bit(1) + bit(2) + bit(3) + bit(4) + bit(5) + bit(6) + bit(7)
       + bit(8) + bit(9) + bit(10) + bit(11) + bit(12) + bit(13) + bit(14) + bit(15)

high16(w) == low16({ b - 16 : b \in w \cap (16 .. 31) })

fromHalves(lo, hi) ==
  { b \in 0 .. 15 : (lo \div (2 ^ b)) % 2 = 1 }
    \cup { b + 16 : b \in { c \in 0 .. 15 : (hi \div (2 ^ c)) % 2 = 1 } }

\* ToUint32(a + b)
add32(a, b) ==
  LET lo == low16(a) + low16(b)
      hi == high16(a) + high16(b) + (lo \div 65536)
  IN fromHalves(lo % 65536, hi % 65536)

\* ToUint32(a - b)
sub32(a, b) ==
  LET lo == 65536 + low16(a) - low16(b)
      hi == 65536 + high16(a) - high16(b) - (IF lo < 65536 THEN 1 ELSE 0)
  IN fromHalves(lo % 65536, hi % 65536)

\* the operators << and >>> use the low five bits of the count
shl32(w, count) == { b + (count % 32) : b \in w } \cap (0 .. 31)

ushr32(w, count) == { b - (count % 32) : b \in w } \cap (0 .. 31)

Word_0x55555555 == { b \in 0 .. 31 : b % 2 = 0 }

Word_0x33333333 == { b \in 0 .. 31 : b % 4 < 2 }

Word_0xF0F0F0F == { b \in 0 .. 31 : b % 8 < 4 }

\* ToUint32(v * 0x1010101): v + (v << 8) + (v << 16) + (v << 24)
times0x1010101(v) ==
  add32(add32(v, shl32(v, 8)), add32(shl32(v, 16), shl32(v, 24)))

\* popcnt32 with the last shift >>> 16
popcnt32_Shift16(v) ==
  LET v1 == sub32(v, ushr32(v, 1) \cap Word_0x55555555)
      v2 == add32(v1 \cap Word_0x33333333, ushr32(v1, 2) \cap Word_0x33333333)
  IN low16(ushr32(times0x1010101(add32(v2, ushr32(v2, 4)) \cap Word_0xF0F0F0F), 16))

\* Chess.Bitboard.popcnt32.  v -= ... and the two sums stay inside
\* 0 .. 0xFFFFFFFF; the product is exact in a double and >>> 24 reads it
\* modulo 2^32.  + binds tighter than &.
popcnt32(v) ==
  LET v1 == sub32(v, ushr32(v, 1) \cap Word_0x55555555)
      v2 == add32(v1 \cap Word_0x33333333, ushr32(v1, 2) \cap Word_0x33333333)
  IN low16(ushr32(times0x1010101(add32(v2, ushr32(v2, 4)) \cap Word_0xF0F0F0F), 24))

\* Chess.Bitboard.popLowestBit32: (v & (v - 1)) >>> 0
popLowestBit32(v) == v \cap sub32(v, {0})

\* Chess.Bitboard.getLowestBitPosition32: popcnt32((v & -v) - 1); the
\* argument may be negative and popcnt32 reads it with v >>>= 0
getLowestBitPosition32(v) == popcnt32(sub32(v \cap sub32({}, v), {0}))

\* new Chess.Bitboard(low, high) of the squares of a set
Bitboard_make(squares) ==
  [low |-> squares \cap (0 .. 31), high |-> { i - 32 : i \in squares \cap (32 .. 63) }]

\* the squares whose bits are one
toSet(bb) == bb.low \cup { i + 32 : i \in bb.high }

Bitboard_popcnt(bb) == popcnt32(bb.low) + popcnt32(bb.high)

Bitboard_popLowestBit(bb) ==
  IF bb.low # {} THEN [bb EXCEPT !.low = popLowestBit32(bb.low)]
  ELSE [bb EXCEPT !.high = popLowestBit32(bb.high)]

Bitboard_getLowestBitPosition(bb) ==
  IF bb.low # {} THEN getLowestBitPosition32(bb.low)
  ELSE 32 + getLowestBitPosition32(bb.high)

Bitboard_isEmpty(bb) == bb.low = {} /\ bb.high = {}

Bitboard_setBit(bb, index) ==
  IF index < 32 THEN [bb EXCEPT !.low = bb.low \cup shl32({0}, index)]
  ELSE [bb EXCEPT !.high = bb.high \cup shl32({0}, index - 32)]

Bitboard_and_not(bb, other) ==
  [low |-> bb.low \ other.low, high |-> bb.high \ other.high]

Bitboard_or(bb, other) ==
  [low |-> bb.low \cup other.low, high |-> bb.high \cup other.high]

\* Chess.Bitboard.prototype.shl, for a count v >= 0
Bitboard_shl(bb, v) ==
  IF v > 31 THEN [low |-> {}, high |-> shl32(bb.low, v - 32)]
  ELSE IF v > 0
  THEN [low |-> shl32(bb.low, v),
        high |-> shl32(bb.high, v) \cup ushr32(bb.low, 32 - v)]
  ELSE bb

\* Chess.Bitboard.prototype.shr, for a count v >= 0
Bitboard_shr(bb, v) ==
  IF v > 31 THEN [low |-> ushr32(bb.high, v - 32), high |-> {}]
  ELSE IF v > 0
  THEN [low |-> ushr32(bb.low, v) \cup shl32(bb.high, 32 - v),
        high |-> ushr32(bb.high, v)]
  ELSE bb

\* shiftLeft without the test for more than 63 places
Bitboard_shiftLeft_NoLimit(bb, v) ==
  IF v > 0 THEN Bitboard_shl(bb, v)
  ELSE IF v < 0 THEN Bitboard_shr(bb, -v)
  ELSE bb

Bitboard_shiftLeft(bb, v) ==
  IF v > 63 \/ v < -63 THEN Zero64
  ELSE IF v > 0 THEN Bitboard_shl(bb, v)
  ELSE IF v < 0 THEN Bitboard_shr(bb, -v)
  ELSE bb

\* make(0x01010101, 0x01010101).shl(file)
Bitboard_makeFile(file) ==
  Bitboard_shl([low |-> {0, 8, 16, 24}, high |-> {0, 8, 16, 24}], file)

\* makeKingMovement without the file masks
Bitboard_makeKingMovement_Wrapping(index) ==
  LET b == Bitboard_setBit(Zero64, index)
      c == Bitboard_or(Bitboard_shr(b, 1), Bitboard_shl(b, 1))
      u == Bitboard_shr(Bitboard_or(b, c), 8)
      d == Bitboard_shl(Bitboard_or(b, c), 8)
  IN Bitboard_or(Bitboard_or(c, u), d)

Bitboard_makeKnightMovement(index) ==
  LET b == Bitboard_setBit(Zero64, index)
      l1 == Bitboard_and_not(Bitboard_shr(b, 1), Bitboard_makeFile(7))
      l2 == Bitboard_and_not(Bitboard_and_not(Bitboard_shr(b, 2), Bitboard_makeFile(7)),
                             Bitboard_makeFile(6))
      r1 == Bitboard_and_not(Bitboard_shl(b, 1), Bitboard_makeFile(0))
      r2 == Bitboard_and_not(Bitboard_and_not(Bitboard_shl(b, 2), Bitboard_makeFile(0)),
                             Bitboard_makeFile(1))
      v1 == Bitboard_or(l2, r2)
      v2 == Bitboard_or(l1, r1)
  IN Bitboard_or(Bitboard_or(Bitboard_or(Bitboard_shl(v1, 8), Bitboard_shr(v1, 8)),
                             Bitboard_shl(v2, 16)),
                 Bitboard_shr(v2, 16))

Bitboard_makeKingMovement(index) ==
  LET b == Bitboard_setBit(Zero64, index)
      c == Bitboard_or(Bitboard_and_not(Bitboard_shr(b, 1), Bitboard_makeFile(7)),
                       Bitboard_and_not(Bitboard_shl(b, 1), Bitboard_makeFile(0)))
      u == Bitboard_shr(Bitboard_or(b, c), 8)
      d == Bitboard_shl(Bitboard_or(b, c), 8)
  IN Bitboard_or(Bitboard_or(c, u), d)

\* the largest shift count tried, in both directions
MaxShift == 66

\* the boards the calls start from: every single square, every file and
\* rank, the light and the dark squares, the full and the empty board, and
\* boards around the border between the two words
BitboardSeeds ==
  { Bitboard_make(squares) :
      squares \in { {i} : i \in Board }
                    \cup { FILES[f] : f \in 0 .. 7 }
                    \cup { RANKS[r] : r \in 0 .. 7 }
                    \cup { LIGHT_SQUARES, DARK_SQUARES, Board, {},
                           {31, 32}, {0, 63}, {0, 31, 32, 63}, 0 .. 31, 32 .. 63,
                           {30, 31, 32, 33}, {15, 16, 47, 48} } }

InitBitboard ==
  /\ position = NewPosition
  /\ ret = "constructed"
  /\ undos = 0
  /\ perftDepth = 0
  /\ perftFrames = <<>>
  /\ perftResult = Null
  /\ NoSearch
  /\ parser = NoParser
  /\ bitboard \in BitboardSeeds
  /\ zobrist = Zero64
  /\ randomValues = <<>>
  /\ call = NoCall

\* one call on the board: the board after it, the value it returns and
\* whether it counts as a change
BitboardCall(fn, args, after, value, changes) ==
  /\ bitboard' = after
  /\ call' = [fn |-> fn, args |-> args, ret |-> value, n |-> call.n + changes]
  /\ UNCHANGED <<position, ret, undos, perftDepth, perftFrames, perftResult,
                 searchFrames, searchResult, evaluated, calledOn,
                 parser, zobrist, randomValues>>

\* bitboard.shiftLeft(v) on a board as constructed
BitboardShiftLeft ==
  /\ call.n = 0
  /\ \E v \in -MaxShift .. MaxShift :
       BitboardCall("shiftLeft", <<v>>, Bitboard_shiftLeft(bitboard, v), Null, 1)

\* Chess.Bitboard.makeKnightMovement(index)
BitboardMakeKnightMovement ==
  /\ call.n = 0
  /\ \E index \in Board :
       BitboardCall("makeKnightMovement", <<index>>,
                    Bitboard_makeKnightMovement(index), Null, 1)

\* Chess.Bitboard.makeKingMovement(index)
BitboardMakeKingMovement ==
  /\ call.n = 0
  /\ \E index \in Board :
       BitboardCall("makeKingMovement", <<index>>,
                    Bitboard_makeKingMovement(index), Null, 1)

\* bitboard.getLowestBitPosition() on a board that is not empty
BitboardGetLowestBitPosition ==
  /\ ~Bitboard_isEmpty(bitboard)
  /\ call.fn # "getLowestBitPosition"
  /\ BitboardCall("getLowestBitPosition", <<>>, bitboard,
                  Bitboard_getLowestBitPosition(bitboard), 0)

\* bitboard.extractLowestBitPosition() in a loop while (!bitboard.isEmpty())
BitboardExtractLowestBitPosition ==
  /\ ~Bitboard_isEmpty(bitboard)
  /\ BitboardCall("extractLowestBitPosition", <<>>,
                  Bitboard_popLowestBit(bitboard),
                  Bitboard_getLowestBitPosition(bitboard), 1)

NextBitboard ==
  \/ BitboardShiftLeft
  \/ BitboardMakeKnightMovement
  \/ BitboardMakeKingMovement
  \/ BitboardGetLowestBitPosition
  \/ BitboardExtractLowestBitPosition

SpecBitboard == InitBitboard /\ [][NextBitboard]_vars

\* C25: on every board that is not empty extractLowestBitPosition returns
\* the smallest member and removes exactly that member (every other member
\* is kept and popcnt drops by one); getLowestBitPosition returns the same
\* index and leaves the board as it is.
C25_ExtractLowest ==
  [][ /\ call'.fn = "extractLowestBitPosition" =>
           /\ call'.ret \in toSet(bitboard)
           /\ \A i \in toSet(bitboard) : call'.ret <= i
           /\ toSet(bitboard') = toSet(bitboard) \ {call'.ret}
           /\ Bitboard_popcnt(bitboard) = Cardinality(toSet(bitboard))
           /\ Bitboard_popcnt(bitboard') = Bitboard_popcnt(bitboard) - 1
      /\ call'.fn = "getLowestBitPosition" =>
           /\ call'.ret \in toSet(bitboard)
           /\ \A i \in toSet(bitboard) : call'.ret <= i
           /\ bitboard' = bitboard ]_vars

\* bit 31 taken out of the board {31, 32}: bit 32, in the other word, stays
C25_Witness ==
  /\ call.fn = "extractLowestBitPosition"
  /\ call.n = 1
  /\ call.ret = 31
  /\ bitboard = [low |-> {}, high |-> {0}]

\* C26: for every board S and every integer v, shiftLeft(v) yields the board
\* { i + v : i in S and 0 <= i + v <= 63 }, a shift to the left for
\* positive v, to the right for negative v and no change for 0, and the
\* empty board whenever |v| >= 64.
C26_ShiftLeft ==
  [][ call'.fn = "shiftLeft" =>
        /\ toSet(bitboard') = { i + call'.args[1] : i \in toSet(bitboard) } \cap (0 .. 63)
        /\ bitboard'.low \subseteq 0 .. 31 /\ bitboard'.high \subseteq 0 .. 31
        /\ call'.args[1] = 0 => bitboard' = bitboard
        /\ (call'.args[1] >= 64 \/ call'.args[1] <= -64) => bitboard' = Zero64 ]_vars

\* the light squares shifted by nine places, across the border of the words
C26_Witness ==
  /\ call.fn = "shiftLeft"
  /\ call.args = <<9>>
  /\ toSet(bitboard) = { i + 9 : i \in LIGHT_SQUARES } \cap (0 .. 63)
  /\ 32 \in toSet(bitboard) /\ 1 \notin toSet(bitboard)

\* a shift by 64 places of a board that is not empty
C26_WitnessSaturated ==
  /\ call.fn = "shiftLeft"
  /\ call.args = <<64>>
  /\ bitboard = Zero64

\* the distance in files and in ranks between two squares
fileDistance(s, t) ==
  IF getFile(s) >= getFile(t) THEN getFile(s) - getFile(t) ELSE getFile(t) - getFile(s)

rankDistance(s, t) ==
  IF getRank(s) >= getRank(t) THEN getRank(s) - getRank(t) ELSE getRank(t) - getRank(s)

\* C27: for every square s the knight attack set of s is exactly the set of
\* squares of the board a knight's jump away from s, and the king attack set
\* of s is exactly the set of squares of the board next to s (in a file, a
\* rank or a diagonal); nothing wraps around the a and h files or the first
\* and last ranks.  The sets the position uses are the same sets.
C27_KnightAndKingMovements ==
  /\ call.fn = "makeKnightMovement" =>
       /\ toSet(bitboard) =
            { t \in 0 .. 63 : {fileDistance(call.args[1], t), rankDistance(call.args[1], t)} = {1, 2} }
       /\ KNIGHT_MOVEMENTS[call.args[1]] = toSet(bitboard)
  /\ call.fn = "makeKingMovement" =>
       /\ toSet(bitboard) =
            { t \in 0 .. 63 : /\ t # call.args[1]
                              /\ fileDistance(call.args[1], t) <= 1
                              /\ rankDistance(call.args[1], t) <= 1 }
       /\ KING_MOVEMENTS[call.args[1]] = toSet(bitboard)

\* the king on h1 reaches g1, g2 and h2 and nothing on the a file
C27_Witness ==
  /\ call.fn = "makeKingMovement"
  /\ call.args = <<7>>
  /\ toSet(bitboard) = {6, 14, 15}

\* the knight on a8 reaches b6 and c7
C27_WitnessKnight ==
  /\ call.fn = "makeKnightMovement"
  /\ call.args = <<56>>
  /\ toSet(bitboard) = {41, 50}

\* ------------------------------------------------------------------ parser.js
\* Texts are strings; sub(text, i, n) is text.substr(i - 1, n) when the n
\* characters exist and "" otherwise.
sub(text, i, n) == IF i >= 1 /\ i + n - 1 <= Len(text) THEN SubSeq(text, i, i + n - 1) ELSE ""

Digits == {"0", "1", "2", "3", "4", "5", "6", "7", "8", "9"}

LowerCase ==
  {"a", "b", "c", "d", "e", "f", "g", "h", "i", "j", "k", "l", "m",
   "n", "o", "p", "q", "r", "s", "t", "u", "v", "w", "x", "y", "z"}

UpperCase ==
  {"A", "B", "C", "D", "E", "F", "G", "H", "I", "J", "K", "L", "M",
   "N", "O", "P", "Q", "R", "S", "T", "U", "V", "W", "X", "Y", "Z"}

\* dashes and hyphens that clean turns into "-": the hyphen-minus, the
\* Hebrew maqaf and the subscript minus of the seventeen the code lists
Dashes == {"-", "־", "₋"}

\* [ a-z0-9.=:½-] with the flag i
Interesting == {" ", ".", "=", ":", "½", "-"} \cup LowerCase \cup UpperCase \cup Digits

RECURSIVE join(_, _, _)
\* the strings parts[lo], ..., parts[hi] one after the other
join(parts, lo, hi) ==
  IF lo > hi THEN ""
  ELSE IF lo = hi THEN parts[lo]
  ELSE join(parts, lo, (lo + hi) \div 2) \o join(parts, (lo + hi) \div 2 + 1, hi)

\* text.replace(/[...]/g, to) for a class of characters
replaceChars(text, class, to) ==
  join([i \in 1 .. Len(text) |->
          IF sub(text, i, 1) \in class THEN to ELSE sub(text, i, 1)], 1, Len(text))

\* text.replace(/[^...]/g, " ") for a class of characters
keepChars(text, class) ==
  join([i \in 1 .. Len(text) |->
          IF sub(text, i, 1) \in class THEN sub(text, i, 1) ELSE " "], 1, Len(text))

\* text.replace(/\([^()]*\)/g, ""): a character goes when it lies between
\* a "(" and a ")" with no parenthesis in between, both included
removeParens(text) ==
  LET parens == { j \in 1 .. Len(text) : sub(text, j, 1) \in {"(", ")"} }
      inside(i) ==
        \E a \in parens, b \in parens :
          /\ a <= i /\ i <= b
          /\ sub(text, a, 1) = "(" /\ sub(text, b, 1) = ")"
          /\ \A c \in parens : ~(a < c /\ c < b)
  IN join([i \in 1 .. Len(text) |-> IF inside(i) THEN "" ELSE sub(text, i, 1)],
          1, Len(text))

RECURSIVE removeComments(_)
\* the while (true) loop of clean
removeComments(text) ==
  LET replaced == removeParens(text)
  IN IF replaced = text THEN text ELSE removeComments(replaced)

\* text.replace(/  +/g, " "): of two or more spaces in a row the last stays
collapseSpaces(text) ==
  join([i \in 1 .. Len(text) |->
          IF sub(text, i, 2) = "  " THEN "" ELSE sub(text, i, 1)], 1, Len(text))

\* Chess.Parser.clean
clean(text) ==
  collapseSpaces(keepChars(removeComments(
    replaceChars(replaceChars(text, {"\r", "\n", "\t"}, " "), Dashes, "-")), Interesting))

\* text.split(" "): the pieces between the spaces, empty ones included
split(text) ==
  LET spaces == { i \in 1 .. Len(text) : sub(text, i, 1) = " " }
      space(j) == IF j = 0 THEN 0
                  ELSE IF j > Cardinality(spaces) THEN Len(text) + 1
                  ELSE CHOOSE i \in spaces : Cardinality({ k \in spaces : k < i }) = j - 1
  IN [j \in 1 .. Cardinality(spaces) + 1 |->
        sub(text, space(j - 1) + 1, space(j) - space(j - 1) - 1)]

\* moveText.match(/\d+\./)
moveNumber(moveText) ==
  \E i \in 1 .. Len(moveText) :
    sub(moveText, i, 1) \in Digits /\ sub(moveText, i + 1, 1) = "."

\* moveText.match(/1-0|0-1|½-½/)
gameOver(moveText) ==
  \E i \in 1 .. Len(moveText) : sub(moveText, i, 3) \in {"1-0", "0-1", "½-½"}

\* text.match(/0-0(?:-0)?|O-O(?:-O)?/i)[0], "" when there is no match: the
\* leftmost match, the first alternative before the second, the optional
\* part taken when it is there
castlingMatch(text) ==
  LET zeros(i) == sub(text, i, 3) = "0-0"
      ohs(i) == /\ sub(text, i, 1) \in {"O", "o"} /\ sub(text, i + 1, 1) = "-"
                /\ sub(text, i + 2, 1) \in {"O", "o"}
      starts == { i \in 1 .. Len(text) : zeros(i) \/ ohs(i) }
  IN IF starts = {} THEN ""
     ELSE LET i == CHOOSE k \in starts : \A l \in starts : k <= l
          IN IF zeros(i)
             THEN (IF sub(text, i + 3, 2) = "-0" THEN sub(text, i, 5) ELSE sub(text, i, 3))
             ELSE (IF sub(text, i + 3, 1) = "-" /\ sub(text, i + 4, 1) \in {"O", "o"}
                   THEN sub(text, i, 5) ELSE sub(text, i, 3))

\* One way of matching the move expression at index k: f[1..7] tell which of
\* the optional parts (piece, from file, from rank, dash, capture, to rank,
\* promotion) are taken.  The groups are "" where JavaScript has undefined.
moveGroups(text, k, f) ==
  LET p1 == k
      p2 == p1 + f[1]
      p3 == p2 + f[2]
      p4 == p3 + f[3]
      p5 == p4 + f[4]
      p6 == p5 + f[5]
      p7 == p6 + 1
      p8 == p7 + f[6]
  IN [matched |-> /\ f[1] = 1 => sub(text, p1, 1) \in {"N", "B", "R", "Q", "K"}
                  /\ f[2] = 1 => sub(text, p2, 1) \in {"a", "b", "c", "d", "e", "f", "g", "h"}
                  /\ f[3] = 1 => sub(text, p3, 1) \in {"1", "2", "3", "4", "5", "6", "7", "8"}
                  /\ f[4] = 1 => sub(text, p4, 1) = "-"
                  /\ f[5] = 1 => sub(text, p5, 1) \in {"x", ":"}
                  /\ sub(text, p6, 1) \in {"a", "b", "c", "d", "e", "f", "g", "h"}
                  /\ f[6] = 1 => sub(text, p7, 1) \in {"1", "2", "3", "4", "5", "6", "7", "8"}
                  /\ f[7] = 1 => /\ sub(text, p8, 1) \in {"=", "("}
                                 /\ sub(text, p8 + 1, 1) \in {"N", "B", "R", "Q"},
      piece |-> IF f[1] = 1 THEN sub(text, p1, 1) ELSE "",
      fromFile |-> IF f[2] = 1 THEN sub(text, p2, 1) ELSE "",
      fromRank |-> IF f[3] = 1 THEN sub(text, p3, 1) ELSE "",
      capture |-> IF f[5] = 1 THEN sub(text, p5, 1) ELSE "",
      toFile |-> sub(text, p6, 1),
      toRank |-> IF f[6] = 1 THEN sub(text, p7, 1) ELSE "",
      promotedPiece |-> IF f[7] = 1 THEN sub(text, p8 + 1, 1) ELSE ""]

\* the order in which the expression tries the optional parts: an earlier
\* part taken comes before any choice of the later parts
greed(f) == 64 * f[1] + 32 * f[2] + 16 * f[3] + 8 * f[4] + 4 * f[5] + 2 * f[6] + f[7]

\* text.match(/([NBRQK])?([a-h])?([1-8])?-?([x:])?([a-h])([1-8])?(?:[=(]([NBRQ]))?/):
\* the leftmost index with a match, and there the first match in the order
\* the expression tries them
moveMatch(text) ==
  LET ways == [1 .. 7 -> {0, 1}]
      starts == { k \in 1 .. Len(text) : \E f \in ways : moveGroups(text, k, f).matched }
  IN IF starts = {} THEN [matched |-> FALSE]
     ELSE LET k == CHOOSE i \in starts : \A j \in starts : i <= j
              good == { f \in ways : moveGroups(text, k, f).matched }
              best == CHOOSE f \in good : \A g \in good : greed(f) >= greed(g)
          IN moveGroups(text, k, best)

\* the filter callback of parseOneMove
moveFits(m, move) ==
  /\ m.piece # "" => charAt(PIECE_ALGEBRAIC_NAMES, getPiece(move)) = m.piece
  /\ m.piece = "" => getPiece(move) = PAWN
  /\ m.fromFile # "" => FILE_CHARACTERS[getFile(getFrom(move)) + 1] = m.fromFile
  /\ m.fromRank # "" => RANK_CHARACTERS[getRank(getFrom(move)) + 1] = m.fromRank
  /\ m.capture # "" => isCapture(move)
  /\ m.toFile # "" => FILE_CHARACTERS[getFile(getTo(move)) + 1] = m.toFile
  /\ m.toRank # "" => RANK_CHARACTERS[getRank(getTo(move)) + 1] = m.toRank
  /\ m.promotedPiece # "" =>
       charAt(PIECE_ALGEBRAIC_NAMES, getPromotedPiece(move)) = m.promotedPiece

\* Chess.Parser.parseOneMove on the list getMoves() returned: null is
\* matched = FALSE
parseOneMove(legal, text) ==
  LET castling == castlingMatch(text)
      m == moveMatch(text)
  IN IF castling # ""
     THEN LET kind == IF Len(castling) = 3 THEN KING_CASTLE ELSE QUEEN_CASTLE
              ofKind(move) == getKind(move) = kind
          IN [matched |-> TRUE, moves |-> SelectSeq(legal, ofKind)]
     ELSE IF m.matched
     THEN LET fits(move) == moveFits(m, move)
          IN [matched |-> TRUE, moves |-> SelectSeq(legal, fits)]
     ELSE [matched |-> FALSE, moves |-> <<>>]

\* a parse error for the empty list only: of several moves the first is made
parseError_None(found) == ~found.matched \/ Len(found.moves) = 0

\* !moves || moves.length !== 1
parseError(found) == ~found.matched \/ Len(found.moves) # 1

\* the texts handed to parseMoves: the second game of the parser's test,
\* a game with a result and text after it, an ambiguous knight move and the
\* same move with its file, a move no piece can make, comments and check
\* marks, move numbers written without a space, both castles written with
\* the letter O, an en passant capture, a promotion with and without its
\* piece, a mate mark at the end of the text, a draw, and the empty text
ParserTexts ==
  { "1. e4 d5 2. exd5 Qxd5 3. Nc3 Qa5 4. d4 c6 5. Nf3 Bg4 6. Bf4 e6 7. h3 Bxf3 8. Qxf3 Bb4 9. Be2 Nd7 10. a3 0-0-0",
    "1. f3 e5 2. g4 Qh4 0-1 3. e4",
    "1. d4 d5 2. Nf3 Nf6 3. Nd2 e6",
    "1. d4 d5 2. Nf3 Nf6 3. Nbd2 e6",
    "1. e4 e5 2. Ke3 Nc6",
    "1. e4 (king's pawn (best by test)) d5 2. Bb5+ c6!",
    "1.e3 e4 2.d4",
    "1.\te4\te5\n2.\tNf3\tNc6\n3.\tBc4\tBc5\n4.\tO-O\tNf6",
    "1. d4 d5 2. Bf4 Bf5 3. Qd2 Qd7 4. Nc3 Nc6 5. o-o-o O-O-O",
    "1. e4 a6 2. e5 d5 3. e5:d6 cxd6",
    "1. h4 g5 2. hxg5 h6 3. gxh6 Nf6 4. h7 Rg8 5. hxg8=Q Nxg8",
    "1. h4 g5 2. hxg5 h6 3. gxh6 Nf6 4. h7 Rg8 5. hxg8 Nxg8",
    "1. e4 e5 2. Qh5 Nc6 3. Bc4 Nf6 4. Qxf7#",
    "1. Nf3 Nf6 2. Ng1 Ng8 ½-½ 3. e4",
    "1. e2-e4 e7-e5 2. Ng1-f3 d7-d6 3. e",
    "" }

\* var chessPosition = new Chess.Position; the tokens of the cleaned text
InitParser ==
  /\ position = NewPosition
  /\ ret = "constructed"
  /\ undos = 0
  /\ perftDepth = 0
  /\ perftFrames = <<>>
  /\ perftResult = Null
  /\ NoSearch
  /\ \E text \in ParserTexts :
       parser = [tokens |-> split(clean(text)), i |-> 1, state |-> "parsing",
                 token |-> "", count |-> 0]
  /\ bitboard = Zero64
  /\ zobrist = Zero64
  /\ randomValues = <<>>
  /\ call = NoCall

\* the token the callback of every is called with
moveText == parser.tokens[parser.i]

\* a move number: return true
ParserMoveNumber ==
  /\ parser.state = "parsing" /\ parser.i <= Len(parser.tokens)
  /\ moveNumber(moveText)
  /\ parser' = [parser EXCEPT !.i = @ + 1, !.token = moveText]
  /\ UNCHANGED <<position, ret, undos, perftVars, searchVars,
                 bitboard, zobrist, randomValues, call>>

\* a game result: return false ends every, parseMoves returns the position
ParserGameOver ==
  /\ parser.state = "parsing" /\ parser.i <= Len(parser.tokens)
  /\ ~moveNumber(moveText) /\ gameOver(moveText)
  /\ parser' = [parser EXCEPT !.state = "returned", !.token = moveText]
  /\ UNCHANGED <<position, ret, undos, perftVars, searchVars,
                 bitboard, zobrist, randomValues, call>>

\* a move: parseOneMove, then the parse error or makeMove(moves[0]); count
\* is the length of the list parseOneMove returned
ParserMove ==
  /\ parser.state = "parsing" /\ parser.i <= Len(parser.tokens)
  /\ ~moveNumber(moveText) /\ ~gameOver(moveText)
  /\ \E r \in {getMoves(position, FALSE, FALSE)} :
       \E found \in {parseOneMove(r.moves, moveText)} :
         IF parseError(found)
         THEN /\ position' = r.pos
              /\ parser' = [parser EXCEPT !.state = "thrown", !.token = moveText,
                                          !.count = Len(found.moves)]
         ELSE /\ position' = makeMove(r.pos, found.moves[1]).pos
              /\ parser' = [parser EXCEPT !.i = @ + 1, !.token = moveText, !.count = 1]
  /\ UNCHANGED <<ret, undos, perftVars, searchVars,
                 bitboard, zobrist, randomValues, call>>

\* every has seen all tokens: parseMoves returns the position
ParserEnd ==
  /\ parser.state = "parsing" /\ parser.i > Len(parser.tokens)
  /\ parser' = [parser EXCEPT !.state = "returned"]
  /\ UNCHANGED <<position, ret, undos, perftVars, searchVars,
                 bitboard, zobrist, randomValues, call>>

NextParser == ParserMoveNumber \/ ParserGameOver \/ ParserMove \/ ParserEnd

SpecParser == InitParser /\ [][NextParser]_vars

RECURSIVE replayLegal(_, _)
\* the first n moves of a list made one after the other from the initial
\* arrangement; ok tells that each was a legal move where it was made
replayLegal(moves, n) ==
  IF n = 0 THEN [ok |-> TRUE, pos |-> NewPosition]
  ELSE LET before == replayLegal(moves, n - 1)
           legal == legalMoves(before.pos)
       IN [ok |-> before.ok /\ \E i \in 1 .. Len(legal) : legal[i] = moves[n],
           pos |-> makeMove(before.pos, moves[n]).pos]

\* the legal moves of the position that fit the token read
fitting == parseOneMove(legalMoves(position), moveText)

\* one step of parseMoves, as the claim describes it
ParseMovesStep ==
  /\ position'.madeMoves # position.madeMoves =>
       /\ parser.state = "parsing" /\ parser'.state = "parsing"
       /\ ~moveNumber(moveText) /\ ~gameOver(moveText)
       /\ fitting.matched /\ Len(fitting.moves) = 1
       /\ makeMove(position, fitting.moves[1]).ok
       /\ SameButClock(position', makeMove(position, fitting.moves[1]).pos)
  /\ (parser.state = "parsing" /\ parser.i <= Len(parser.tokens)
        /\ ~moveNumber(moveText) /\ ~gameOver(moveText)) =>
       IF fitting.matched /\ Len(fitting.moves) = 1
       THEN Len(position'.madeMoves) = Len(position.madeMoves) + 1
       ELSE parser'.state = "thrown" /\ position'.madeMoves = position.madeMoves
  /\ (parser.state = "parsing" /\ parser.i <= Len(parser.tokens)
        /\ ~moveNumber(moveText) /\ gameOver(moveText)) =>
       parser'.state = "returned" /\ position' = position
  /\ parser.state \in {"returned", "thrown"} => position' = position

\* the position parseMoves returns
ParseMovesReturned ==
  parser.state = "returned" =>
    LET game == replayLegal(position.madeMoves, Len(position.madeMoves))
        read == { k \in 1 .. Len(parser.tokens) : k < parser.i }
    IN /\ game.ok
       /\ SameButClock(position, game.pos)
       /\ \A k \in read : moveNumber(parser.tokens[k]) \/ ~gameOver(parser.tokens[k])
       /\ Len(position.madeMoves) =
            Cardinality({ k \in read : ~moveNumber(parser.tokens[k]) })

\* C21: parseMoves applies a move token only when exactly one legal move of
\* the current position matches it and raises a parse error when no legal
\* move or more than one matches; it stops at a game-result token, so the
\* Position it returns is reached from the initial arrangement by accepted
\* legal moves only, one for each move token before the result.
C21_ParseMoves == [][ParseMovesStep]_vars /\ []ParseMovesReturned

\* "3. Nd2" with knights on b1 and f3: two moves fit, a parse error, and
\* the two moves of each side made before it stay made
C21_Witness ==
  /\ parser.state = "thrown"
  /\ parser.token = "Nd2"
  /\ parser.count = 2
  /\ Len(position.madeMoves) = 4

\* the game that ends with 0-1: returned after four moves, "e4" after the
\* result was not made
C21_WitnessResult ==
  /\ parser.state = "returned"
  /\ parser.token = "0-1"
  /\ Len(position.madeMoves) = 4
  /\ parser.i < Len(parser.tokens)

\* the parser's test game: returned after twenty moves, the last a castle
C21_WitnessTestGame ==
  /\ parser.state = "returned"
  /\ Len(position.madeMoves) = 20
  /\ getKind(position.madeMoves[20]) = QUEEN_CASTLE

\* C31: the two legality checks agree: in every reachable position, for
\* every move m of the pseudo-legal list, makeMove(m) returns true exactly
\* when m is in legalMoves(), the list the isMoveLegal filter keeps.
C31_LegalityChecksAgree ==
  LET legal == Range(legalMoves(position))
  IN \A m \in Range(pseudoLegalMoves(position)) :
        makeMove(position, m).ok <=> m \in legal

\* the side to move is in check: both checks accept one pseudo-legal move
\* and refuse another, and a refused one has just been tried
C31_Witness ==
  /\ ret = "rejected"
  /\ isKingInCheck(position)
  /\ \E m \in Range(pseudoLegalMoves(position)) :
        /\ makeMove(position, m).ok
        /\ isMoveLegal(position, m).legal
  /\ \E m \in Range(pseudoLegalMoves(position)) :
        /\ ~makeMove(position, m).ok
        /\ ~isMoveLegal(position, m).legal

\* the en passant captures chess allows in p, as <<from, to>>: the last move
\* made was a double pawn push, a pawn of the side to move stands beside the
\* pushed pawn on the same rank, and it goes to the square that was skipped
EnPassantCaptures(p) ==
  LET n == Len(p.madeMoves)
  IN IF n = 0 THEN {}
     ELSE IF getKind(p.madeMoves[n]) # DOUBLE_PAWN_PUSH THEN {}
     ELSE LET pushed == getTo(p.madeMoves[n])
              skipped == (getFrom(p.madeMoves[n]) + pushed) \div 2
              beside == { s \in 0 .. 63 :
                            /\ s \div 8 = pushed \div 8
                            /\ (s % 8) - (pushed % 8) \in {-1, 1}
                            /\ p.pieces[s] = PAWN
                            /\ s \in p.bitboards[ANY_WHITE + p.turn] }
          IN { <<s, skipped>> : s \in beside }

\* C32: generation offers an en passant capture exactly when the en passant
\* square is set (the previous move was a double pawn push) and a pawn of the
\* side to move stands beside the pushed pawn on its rank; there is one
\* move for each such pawn, to the square the pushed pawn skipped, and none
\* across the a/h file boundary.
C32_EnPassantOffered ==
  LET moves == pseudoLegalMoves(position)
      offered == { i \in 1 .. Len(moves) : getKind(moves[i]) = EN_PASSANT_CAPTURE }
  IN /\ { <<getFrom(moves[i]), getTo(moves[i])>> : i \in offered }
          = EnPassantCaptures(position)
     /\ Cardinality(offered) = Cardinality(EnPassantCaptures(position))
     /\ \A i \in offered :
           /\ getPiece(moves[i]) = PAWN
           /\ position.enPassantSquare >= 0
           /\ getFrom(moves[i]) \div 8 = position.enPassantSquare \div 8
           /\ (getFrom(moves[i]) % 8) - (position.enPassantSquare % 8) \in {-1, 1}
           /\ getTo(moves[i]) % 8 = position.enPassantSquare % 8

\* after 4...e5 white pawns stand on d5 and f5: two en passant captures, both to e6
C32_Witness ==
  /\ position.enPassantSquare = S(5,5)
  /\ EnPassantCaptures(position) = { <<S(4,5), S(5,6)>>, <<S(6,5), S(5,6)>> }
  /\ \E m \in Range(pseudoLegalMoves(position)) :
        getKind(m) = EN_PASSANT_CAPTURE /\ getFrom(m) = S(6,5)

\* after 1.h4 a5 the pushed pawn is on a5 and a white pawn on h4, the square
\* numbered one below a5: no en passant capture is offered
C32_WitnessEdge ==
  /\ position.enPassantSquare = S(1,5)
  /\ position.pieces[S(8,4)] = PAWN
  /\ position.turn = WHITE
  /\ \A m \in Range(pseudoLegalMoves(position)) : getKind(m) # EN_PASSANT_CAPTURE

\* after 1.b3 a5 2.h4 the pushed pawn is on h4 and a black pawn on a5, the
\* square numbered one above h4: no en passant capture is offered
C32_WitnessEdgeBlack ==
  /\ position.enPassantSquare = S(8,4)
  /\ position.pieces[S(1,5)] = PAWN
  /\ position.turn = BLACK
  /\ \A m \in Range(pseudoLegalMoves(position)) : getKind(m) # EN_PASSANT_CAPTURE

\* black to move with a pawn on d4 beside the pawn pushed to e4
C32_WitnessBlack ==
  /\ position.turn = BLACK
  /\ EnPassantCaptures(position) = { <<S(4,4), S(5,3)>> }

\* the square behind to for the side color: one rank back towards its own side
behind(color, to) == IF color = WHITE THEN to - 8 ELSE to + 8

\* getCaptureSquare on every move generated for the side to move
CaptureSquareOfGenerated ==
  \A m \in Range(pseudoLegalMoves(position)) :
     getCaptureSquare(m) =
       IF getKind(m) = EN_PASSANT_CAPTURE THEN behind(position.turn, getTo(m))
       ELSE getTo(m)

\* a step that makes an en passant capture takes the opponent's pawn from the
\* square behind to and leaves the capturing pawn on to; a step that takes
\* an en passant capture back puts the pawn back on that square
EnPassantStep ==
  LET n == Len(position.madeMoves)
      n1 == Len(position'.madeMoves)
      mover == position.turn
      other == getOtherPieceColor(mover)
      made == position'.madeMoves[n1]
      undone == position.madeMoves[n]
  IN /\ (ret' = "accepted" /\ n1 = n + 1 /\ getKind(made) = EN_PASSANT_CAPTURE) =>
          LET sq == behind(mover, getTo(made))
          IN /\ position.pieces[sq] = PAWN
             /\ sq \in position.bitboards[ANY_WHITE + other]
             /\ position'.pieces[sq] = Null
             /\ sq \notin position'.bitboards[PAWN]
             /\ sq \notin position'.bitboards[ANY_WHITE + other]
             /\ position'.pieces[getTo(made)] = PAWN
             /\ getTo(made) \in position'.bitboards[PAWN]
             /\ getTo(made) \in position'.bitboards[ANY_WHITE + mover]
             /\ position'.pieces[getFrom(made)] = Null
             /\ \A s \in (0 .. 63) \ {sq, getTo(made), getFrom(made)} :
                   position'.pieces[s] = position.pieces[s]
     /\ (ret' = "unmade" /\ n1 = n - 1 /\ getKind(undone) = EN_PASSANT_CAPTURE) =>
          LET sq == behind(other, getTo(undone))
          IN /\ position.pieces[sq] = Null
             /\ position'.pieces[sq] = PAWN
             /\ sq \in position'.bitboards[PAWN]
             /\ sq \in position'.bitboards[ANY_WHITE + mover]
             /\ position'.pieces[getTo(undone)] = Null
             /\ position'.pieces[getFrom(undone)] = PAWN
             /\ getFrom(undone) \in position'.bitboards[ANY_WHITE + other]
             /\ \A s \in (0 .. 63) \ {sq, getTo(undone), getFrom(undone)} :
                   position'.pieces[s] = position.pieces[s]

\* C33: getCaptureSquare is to for every move except an en passant capture,
\* where it is the square behind to for the moving side (to-8 for white,
\* to+8 for black); an accepted en passant makeMove removes the opponent's
\* pawn from that square and leaves the capturing pawn on to, and unmakeMove
\* puts the captured pawn back on that square.
C33_CaptureSquare == []CaptureSquareOfGenerated /\ [][EnPassantStep]_vars

\* 5.exd6 e.p. has been accepted: d5, where the black pawn stood, is empty
\* and the white pawn is on d6
C33_Witness ==
  /\ ret = "accepted"
  /\ Len(position.madeMoves) = 5
  /\ getKind(position.madeMoves[5]) = EN_PASSANT_CAPTURE
  /\ getCaptureSquare(position.madeMoves[5]) = S(4,5)
  /\ position.pieces[S(4,5)] = Null
  /\ position.pieces[S(4,6)] = PAWN

\* black's 3...dxe3 e.p. has been taken back: the white pawn is on e4 again
C33_WitnessUnmade ==
  /\ ret = "unmade"
  /\ position.turn = BLACK
  /\ position.enPassantSquare = S(5,4)
  /\ position.pieces[S(5,4)] = PAWN
  /\ position.pieces[S(4,4)] = PAWN
  /\ position.pieces[S(5,3)] = Null

\* the rank and the file of a square, and the distance between two numbers
rankOf(s) == s \div 8

fileOf(s) == s % 8

dist(a, b) == IF a < b THEN b - a ELSE a - b

\* the squares strictly between s and t on a common rank, file or diagonal
between(s, t) ==
  LET dr == IF rankOf(t) > rankOf(s) THEN 1 ELSE IF rankOf(t) < rankOf(s) THEN -1 ELSE 0
      df == IF fileOf(t) > fileOf(s) THEN 1 ELSE IF fileOf(t) < fileOf(s) THEN -1 ELSE 0
      steps == IF dist(rankOf(s), rankOf(t)) > dist(fileOf(s), fileOf(t))
               THEN dist(rankOf(s), rankOf(t)) ELSE dist(fileOf(s), fileOf(t))
  IN { (rankOf(s) + k * dr) * 8 + fileOf(s) + k * df : k \in 1 .. steps - 1 }

\* the piece of the given color on s attacks t under the rules of chess,
\* read from the board array and the color's bitboard
attacks(p, color, s, t) ==
  LET piece == p.pieces[s]
      dr == dist(rankOf(s), rankOf(t))
      df == dist(fileOf(s), fileOf(t))
      clear == \A b \in between(s, t) : p.pieces[b] = Null
      diagonal == dr = df /\ dr > 0 /\ clear
      straight == (dr = 0 \/ df = 0) /\ dr + df > 0 /\ clear
  IN /\ s \in p.bitboards[ANY_WHITE + color]
     /\ CASE piece = PAWN ->
               /\ df = 1
               /\ rankOf(t) = rankOf(s) + (IF color = WHITE THEN 1 ELSE -1)
          [] piece = KNIGHT -> <<dr, df>> \in { <<1, 2>>, <<2, 1>> }
          [] piece = KING -> dr <= 1 /\ df <= 1 /\ dr + df > 0
          [] piece = BISHOP -> diagonal
          [] piece = ROOK -> straight
          [] piece = QUEEN -> diagonal \/ straight
          [] OTHER -> FALSE

\* C34: isAttacked(color, square) is true exactly when a piece of that color
\* attacks the square under the rules of chess in the current occupancy: a
\* pawn one step diagonally forward, a knight a jump away, a king beside it,
\* a bishop, rook or queen along an unobstructed line, nothing around the
\* edge of the board.
C34_IsAttacked ==
  \A color \in {WHITE, BLACK} : \A t \in 0 .. 63 :
     isAttacked(position, color, t) <=> \E s \in 0 .. 63 : attacks(position, color, s, t)

\* 1.e3 a5 2.Qh5 played: the queen on h5 attacks h7, f7 and, along the rank,
\* a5, but not a7, the square numbered nine after h5; the pawn on h2
\* attacks g3 and not a4, and isAttacked answers so
C34_Witness ==
  /\ position.pieces[S(8,5)] = QUEEN
  /\ S(8,5) \in position.bitboards[ANY_WHITE + WHITE]
  /\ position.pieces[S(8,2)] = PAWN
  /\ isAttacked(position, WHITE, S(8,7))
  /\ isAttacked(position, WHITE, S(6,7))
  /\ isAttacked(position, WHITE, S(1,5))
  /\ isAttacked(position, WHITE, S(7,3))
  /\ ~isAttacked(position, WHITE, S(1,7))
  /\ ~isAttacked(position, WHITE, S(1,4))
  /\ ~isAttacked(position, BLACK, S(8,5))

\* the last rank of the side to move
lastRankOf(color) == IF color = WHITE THEN 7 ELSE 0

\* the pawn moves of the pseudo-legal list of p
pawnMoves(p) == { m \in Range(pseudoLegalMoves(p)) : getPiece(m) = PAWN }

\* C35: in pseudo-legal generation a pawn move has a promotion kind exactly
\* when its destination is on the mover's last rank; for each such from and
\* to exactly four moves are generated, one for each of knight, bishop, rook
\* and queen, and they are the capture variants exactly when an opponent's
\* piece stands on the destination.
C35_Promotions ==
  LET moves == pseudoLegalMoves(position)
      other == getOtherPieceColor(position.turn)
  IN \A m \in pawnMoves(position) :
        /\ isPromotion(m) <=> rankOf(getTo(m)) = lastRankOf(position.turn)
        /\ isPromotion(m) =>
             LET same == { i \in 1 .. Len(moves) :
                             /\ getPiece(moves[i]) = PAWN
                             /\ getFrom(moves[i]) = getFrom(m)
                             /\ getTo(moves[i]) = getTo(m) }
                 taken == /\ position.pieces[getTo(m)] # Null
                          /\ getTo(m) \in position.bitboards[ANY_WHITE + other]
             IN /\ Cardinality(same) = 4
                /\ { getPromotedPiece(moves[i]) : i \in same }
                     = {KNIGHT, BISHOP, ROOK, QUEEN}
                /\ \A i \in same : isPromotion(moves[i])
                /\ \A i \in same : isCapture(moves[i]) <=> taken

\* white's pawn on h7 with h8 empty and a black rook on g8: four promotions
\* by the push and four by the capture, beside pawn moves that do not promote
C35_Witness ==
  /\ position.turn = WHITE
  /\ position.pieces[S(8,7)] = PAWN
  /\ \E m \in pawnMoves(position) :
        getKind(m) = KNIGHT_PROMOTION /\ getTo(m) = S(8,8)
  /\ \E m \in pawnMoves(position) :
        getKind(m) = ROOK_PROMOTION_CAPTURE /\ getTo(m) = S(7,8)
  /\ \E m \in pawnMoves(position) : ~isPromotion(m)
  /\ Cardinality({ m \in pawnMoves(position) : isPromotion(m) }) = 8

\* black's pawn on h2 with the rook on h1 and the knight on g1: the four
\* capturing promotions on g1 and no other
C35_WitnessBlack ==
  /\ position.turn = BLACK
  /\ position.pieces[S(8,2)] = PAWN
  /\ { getKind(m) : m \in { n \in pawnMoves(position) : isPromotion(n) } }
       = { KNIGHT_PROMOTION_CAPTURE, BISHOP_PROMOTION_CAPTURE,
           ROOK_PROMOTION_CAPTURE, QUEEN_PROMOTION_CAPTURE }
  /\ \A m \in pawnMoves(position) : isPromotion(m) => getTo(m) = S(7,1)

\* the list pseudoLegalMoves(onlyCaptures = true) returns
captureMoves(p) == getMoves(p, TRUE, TRUE).moves

\* C36: in every reachable position captures-only generation returns exactly
\* the capture moves of full generation: the moves of the full pseudo-legal
\* list with isCapture(), each once, and so no castle, no quiet push and no
\* quiet promotion.
C36_OnlyCaptures ==
  LET all == pseudoLegalMoves(position)
      captures == captureMoves(position)
  IN /\ Range(captures) = { m \in Range(all) : isCapture(m) }
     /\ Len(captures) = Cardinality({ i \in 1 .. Len(all) : isCapture(all[i]) })
     /\ \A m \in Range(captures) :
           /\ ~isCastle(m)
           /\ getKind(m) \notin { POSITIONAL, DOUBLE_PAWN_PUSH, KNIGHT_PROMOTION,
                                  BISHOP_PROMOTION, ROOK_PROMOTION, QUEEN_PROMOTION }

\* a position where full generation offers a castle, pawn pushes and
\* captures, and captures-only generation returns the captures
C36_Witness ==
  /\ \E m \in Range(pseudoLegalMoves(position)) : isCastle(m)
  /\ \E m \in Range(pseudoLegalMoves(position)) : getKind(m) = DOUBLE_PAWN_PUSH
  /\ \E m \in Range(captureMoves(position)) : getKind(m) = CAPTURE
  /\ Len(captureMoves(position)) < Len(pseudoLegalMoves(position))

\* white's pawn on h7: full generation offers the four quiet promotions on
\* h8, captures-only generation the four capturing promotions on g8 only
C36_WitnessPromotion ==
  /\ \E m \in Range(pseudoLegalMoves(position)) : getKind(m) = QUEEN_PROMOTION
  /\ \E m \in Range(captureMoves(position)) : getKind(m) = QUEEN_PROMOTION_CAPTURE

\* an en passant capture is in both lists
C36_WitnessEnPassant ==
  \E m \in Range(captureMoves(position)) : getKind(m) = EN_PASSANT_CAPTURE

\* the piece of the given kind and color stands on square s, in the board
\* array and in the bitboards
standsOn(p, piece, color, s) ==
  /\ p.pieces[s] = piece
  /\ s \in p.bitboards[piece]
  /\ s \in p.bitboards[ANY_WHITE + color]

\* the home square of the king of a side: e1 or e8
kingHome(color) == IF color = WHITE THEN S(5,1) ELSE S(5,8)

\* C38: in every reachable position, whenever a castling right is set for a
\* color and side, that color's king stands on its home square and a rook of
\* that color on the corner of that side, so that a generated castle move
\* always moves a real rook.
C38_RightsMeanHome ==
  /\ \A color \in {WHITE, BLACK} : \A kingSide \in BOOLEAN :
        hasCastlingRight(position, color, kingSide) =>
          /\ standsOn(position, KING, color, kingHome(color))
          /\ standsOn(position, ROOK, color, rookHome(color, kingSide))
  /\ \A m \in Range(pseudoLegalMoves(position)) :
        isCastle(m) =>
          /\ getFrom(m) = kingHome(position.turn)
          /\ standsOn(position, ROOK, position.turn,
                      rookHome(position.turn, getKind(m) = KING_CASTLE))
          /\ standsOn(updatePieces(position, m), ROOK, position.turn,
                      IF getKind(m) = KING_CASTLE THEN getTo(m) - 1 ELSE getTo(m) + 1)

\* a castle is on offer to the side to move while a right of the other side
\* is gone because its rook has left the corner
C38_Witness ==
  /\ \E m \in Range(pseudoLegalMoves(position)) : isCastle(m)
  /\ \E kingSide \in BOOLEAN :
        LET other == getOtherPieceColor(position.turn)
        IN /\ ~hasCastlingRight(position, other, kingSide)
           /\ ~standsOn(position, ROOK, other, rookHome(other, kingSide))
           /\ standsOn(position, KING, other, kingHome(other))

\* a right is cleared and no rook of that color stands on the corner
C38_WitnessCleared ==
  \E color \in {WHITE, BLACK} : \E kingSide \in BOOLEAN :
     /\ ~hasCastlingRight(position, color, kingSide)
     /\ Len(position.madeMoves) > 0
     /\ ~standsOn(position, ROOK, color, rookHome(color, kingSide))

\* C39: legalMoves(), pseudoLegalMoves() and status() leave the Position
\* unchanged: after each call the bitboards, the board array, the turn, the
\* castling rights, the en passant square, the halfmove clock, the hash key
\* and the history stacks equal their values before the call, although
\* legality is decided by trying each move on the position.
C39_ReadsLeaveUnchanged ==
  /\ getMoves(position, FALSE, FALSE).pos = position
  /\ getMoves(position, FALSE, TRUE).pos = position
  /\ getMoves(position, TRUE, FALSE).pos = position
  /\ getMoves(position, TRUE, TRUE).pos = position
  /\ getStatus(position).pos = position
  /\ \A m \in Range(generateMoves(position, FALSE)) :
        LET q == isMoveLegal(position, m).pos
        IN /\ q.bitboards = position.bitboards
           /\ q.pieces = position.pieces
           /\ q.turn = position.turn
           /\ q.castlingRights = position.castlingRights
           /\ q.enPassantSquare = position.enPassantSquare
           /\ q.halfmoveClock = position.halfmoveClock
           /\ q.hashKey = position.hashKey
           /\ q.madeMoves = position.madeMoves
           /\ q.irreversibleHistory = position.irreversibleHistory
           /\ q.hashHistory = position.hashHistory

\* white's pawn on h7 after moves were made: the list tried and reverted
\* holds promotions with and without capture, captures and quiet moves, and
\* some move of it was refused
C39_Witness ==
  /\ Len(position.madeMoves) > 0
  /\ \E m \in Range(legalMoves(position)) : getKind(m) = QUEEN_PROMOTION_CAPTURE
  /\ \E m \in Range(legalMoves(position)) : getKind(m) = QUEEN_PROMOTION
  /\ \E m \in Range(legalMoves(position)) : getKind(m) = POSITIONAL
  /\ getStatus(position).status = NORMAL

\* a list with a castle, and a list with an en passant capture, tried and reverted
C39_WitnessCastle ==
  \E m \in Range(legalMoves(position)) : isCastle(m)

C39_WitnessEnPassant ==
  /\ \E m \in Range(legalMoves(position)) : getKind(m) = EN_PASSANT_CAPTURE
  /\ position.turn = BLACK

\* the side to move is in check and some pseudo-legal moves are filtered out
C39_WitnessFiltered ==
  /\ isKingInCheck(position)
  /\ Len(legalMoves(position)) < Len(pseudoLegalMoves(position))
  /\ Len(legalMoves(position)) > 0

\* status() on a checkmate
C39_WitnessMate ==
  /\ getStatus(position).status = CHECKMATE
  /\ Len(pseudoLegalMoves(position)) > 0

\* ------------------------------------------------------- alphaBeta on its own
\* the depths alphaBeta is called with
MaxDepth == 2

\* the most moves made and taken back before alphaBeta is called
MaxClock == 100

\* the halfmove clocks of the new position alphaBeta is called with
RootClocks == {0, MaxClock - 3, MaxClock - 2, MaxClock - 1, MaxClock}

\* the games played before alphaBeta is called, each with its number of moves
AlphaBetaGames == { <<LineItalian, 1>>, <<LineItalian, 2>> }

\* the positions alphaBeta is called on: the new position after moves made
\* and taken back, and the ends of the games
AlphaBetaRoot(p) ==
  \/ p.madeMoves = <<>> /\ p.halfmoveClock \in RootClocks
  \/ \E g \in AlphaBetaGames : Len(p.madeMoves) = g[2] /\ played(p, g[1])

\* the depths alphaBeta is called with on p: one less after a game
AlphaBetaDepths(p) ==
  IF p.madeMoves = <<>> THEN 0 .. MaxDepth ELSE 0 .. MaxDepth - 1

\* the element of a set of one element
only(values) == CHOOSE v \in values : TRUE

\* the largest and the smallest number of a set that is not empty
Maximum(values) == CHOOSE v \in values : \A w \in values : w <= v

Minimum(values) == CHOOSE v \in values : \A w \in values : v <= w

\* the value white, who maximizes, or black, who minimizes, picks
bestFor(color, values) == IF color = WHITE THEN Maximum(values) ELSE Minimum(values)

\* the positions after the accepted moves of a list
children(p, moves) ==
  { r.pos : r \in { m \in { makeMove(p, moves[i]) : i \in 1 .. Len(moves) } : m.ok } }

RECURSIVE minimaxQuiescence(_)
\* quiescence without a window: 0 on a draw, otherwise the better of
\* standing pat and the values after each accepted capture (each accepted
\* move when the king is in check)
minimaxQuiescence(p) ==
  IF isDraw(p) THEN 0
  ELSE bestFor(getTurnColor(p),
               {evaluate(p)} \cup
                 { minimaxQuiescence(q) :
                     q \in children(p, getMoves(p, TRUE, ~isKingInCheck(p)).moves) })

RECURSIVE minimax(_, _)
\* minimax without pruning over positions, each child the position after an
\* accepted move: quiescence at depth 0; with no accepted move the mate
\* value against the side to move or 0; 0 on a draw; otherwise the best
\* child value for the side to move
minimax(p, depth) ==
  IF depth < 1 THEN minimaxQuiescence(p)
  ELSE only({ IF next = {}
              THEN IF ~isKingInCheck(p) THEN 0
                   ELSE IF getTurnColor(p) = WHITE THEN -PIECE_VALUES[KING + 1]
                   ELSE PIECE_VALUES[KING + 1]
              ELSE IF isDraw(p) THEN 0
              ELSE bestFor(getTurnColor(p), { minimax(q, depth - 1) : q \in next }) :
                next \in { children(p, getMoves(p, TRUE, FALSE).moves) } })

\* call while alphaBeta runs and once it has returned
Running(depth) == [fn |-> "alphaBeta", args |-> <<depth>>, ret |-> 0, n |-> 0]

Finished(depth, value) == [fn |-> "alphaBeta", args |-> <<depth>>, ret |-> value, n |-> 1]

\* before alphaBeta is called: the next move of a game is made, or the
\* knight move that is taken back afterwards
AlphaBetaPlay ==
  /\ call.fn = ""
  /\ \E ft \in { g[1][Len(position.madeMoves) + 1] :
                    g \in { h \in AlphaBetaGames :
                              /\ Len(position.madeMoves) < h[2]
                              /\ played(position, h[1])
                              /\ position.madeMoves = <<>> => position.halfmoveClock = 0 } }
                \cup (IF position.madeMoves = <<>> /\ position.halfmoveClock < MaxClock
                      THEN {LineKnight[1]} ELSE {}) :
       position' = makeMove(position, moveFromTo(position, ft)).pos
  /\ UNCHANGED <<ret, undos, perftVars, searchVars, unitVars>>

\* before alphaBeta is called: the knight move is taken back, which leaves
\* halfmoveClock one higher than before the move
AlphaBetaTakeBack ==
  /\ call.fn = ""
  /\ canTakeBack(position)
  /\ position' = unmakeMove(position).pos
  /\ UNCHANGED <<ret, undos, perftVars, searchVars, unitVars>>

\* alphaBeta(chessPosition, depth, -Infinity, Infinity) is called: it returns
\* from quiescenceSearch before any loop, or reaches its loop
AlphaBetaCall ==
  /\ call.fn = ""
  /\ AlphaBetaRoot(position)
  /\ \E depth \in AlphaBetaDepths(position) :
       \E c \in { alphaBeta(position, depth, -Infinity, Infinity) } :
          IF c.done
          THEN /\ call' = Finished(depth, c.value)
               /\ UNCHANGED searchFrames
          ELSE /\ call' = Running(depth)
               /\ searchFrames' = << [c.frame EXCEPT
                                        !.moves = sortedMoves(c.frame.kind, position)] >>
  /\ calledOn' = position
  /\ UNCHANGED <<position, ret, undos, perftVars, searchResult, evaluated,
                 parser, bitboard, zobrist, randomValues>>

\* the loop of the innermost invocation is over: it returns to the loop body
\* that called it, or, the outermost, to the caller of alphaBeta
AlphaBetaReturn ==
  \/ /\ Len(searchFrames) > 1
     /\ SearchReturn
  \/ /\ Len(searchFrames) = 1
     /\ loopOver(SearchTop)
     /\ call' = Finished(call.args[1], returnValue(SearchTop, position))
     /\ searchFrames' = <<>>
     /\ UNCHANGED <<position, ret, undos, perftVars, searchResult, evaluated, calledOn,
                    parser, bitboard, zobrist, randomValues>>

NextAlphaBeta ==
  AlphaBetaPlay \/ AlphaBetaTakeBack \/ AlphaBetaCall \/ SearchLoop \/ AlphaBetaReturn

SpecAlphaBeta == InitSearch /\ [][NextAlphaBeta]_vars

\* alphaBeta has returned
AlphaBetaReturned == call.fn = "alphaBeta" /\ call.n = 1

\* C37: ordering and pruning do not change the result: for every position
\* and depth, alphaBeta called with the full window returns the value of
\* minimax without pruning (white maximizes, black minimizes) over the same
\* depth with the same quiescence and terminal values.
C37_AlphaBetaIsMinimax ==
  AlphaBetaReturned => call.ret = minimax(calledOn, call.args[1])

\* alphaBeta has returned on the new position with halfmoveClock 98, depth 1:
\* it returns 40, the value after the best pawn move, and minimax gives 50,
\* the value after Ng1-f3, which alphaBeta examined second
C37_Witness ==
  /\ AlphaBetaReturned
  /\ calledOn.madeMoves = <<>>
  /\ calledOn.halfmoveClock = MaxClock - 2
  /\ call.args = <<1>>
  /\ call.ret = 40
  /\ minimax(calledOn, 1) = 50
  /\ evaluate(makeMove(calledOn, moveFromTo(calledOn, <<S(7,1), S(6,3)>>)).pos) = 50
  /\ ~isDraw(makeMove(calledOn, moveFromTo(calledOn, <<S(7,1), S(6,3)>>)).pos)

\* the same with halfmoveClock 100, a draw by the fifty-move rule: alphaBeta
\* returns 40 and minimax 0
C37_WitnessDraw ==
  /\ AlphaBetaReturned
  /\ calledOn.madeMoves = <<>>
  /\ calledOn.halfmoveClock = MaxClock
  /\ isDraw(calledOn)
  /\ call.args = <<1>>
  /\ call.ret = 40
  /\ minimax(calledOn, 1) = 0

\* where the clock stays below the fifty-move limit during the whole call,
\* alphaBeta returns the minimax value: the new position and the positions
\* after 1.e4 and 1.e4 e5, white and black to move, pruned or not
C37_AgreeOnLowClock ==
  (AlphaBetaReturned /\ calledOn.halfmoveClock = 0) =>
     call.ret = minimax(calledOn, call.args[1])

\* alphaBeta has returned from depth 2 on the new position, after cutting
\* off at least one loop, with the minimax value
C37_WitnessAgree ==
  /\ AlphaBetaReturned
  /\ calledOn = NewPosition
  /\ call.args = <<MaxDepth>>
  /\ call.ret = minimax(calledOn, MaxDepth)

====
